---- MODULE Spec2Model ----
(***************************************************************************)
(* A model of src/mcdonalds.py: the menu scraper (MenuScraper), the order  *)
(* session (DriveThruAI) and the agent tools add_to_order and              *)
(* remove_from_order.                                                      *)
(*                                                                         *)
(* Representation.                                                         *)
(*   - A Python str that the code inspects character by character (item    *)
(*     names, the customer's text) is a sequence of one-character strings. *)
(*     The characters are those a string can hold here: see UpperLetters.  *)
(*   - A category name is only ever used as a dictionary key, so it is a   *)
(*     TLA+ string; its three-character prefix is tabulated in Prefix3.    *)
(*   - A price is an integer number of cents; the random jitter is an      *)
(*     integer number of tenths of a cent.  Where the rounding of a price  *)
(*     depends on it, the Python floats are held exactly, bit by bit.      *)
(*   - A dict is the sequence of its values in insertion order (every      *)
(*     value carries its key in the field id).                             *)
(*   - Order objects live in heap; current_order and orders_history hold   *)
(*     addresses into it, as the Python attributes hold references.        *)
(*   - MenuItem.description and Order.created_at are not modelled: no      *)
(*     modelled code reads them.                                           *)
(***************************************************************************)
EXTENDS Integers, Sequences, FiniteSets, TLC

VARIABLES
    menu_data,       \* MenuScraper.menu_data: the dict id -> MenuItem
    categories,      \* MenuScraper.categories: category -> list of MenuItem
    menu,            \* DriveThruAI.menu: which dict object the attribute holds
    heap,            \* the Order objects alive in the session
    current_order,   \* DriveThruAI.current_order: an address, or None
    orders_history,  \* DriveThruAI.orders_history: list of addresses
    issued,          \* history variable: the ids start_new_order has given out, in order
    last             \* history variable: the last call: [op, arg, ret]

vars == <<menu_data, categories, menu, heap, current_order, orders_history, issued, last>>

\* Python's None, for an attribute holding an address (addresses start at 1).
None == 0

\* Python's None, for an optional ItemSize.
NoSize == "None"

\* Python's None, for MenuItem.available_sizes.  The code tests the attribute for
\* truth only and never builds an empty list, so None is the empty sequence.
NoSizes == <<>>

-----------------------------------------------------------------------------
(* Bounds of the model *)

\* The most entries menu_data may hold before a page that adds items is refused.
MaxMenu == 2

\* The most lines one order may hold before add_item_to_order is no longer called.
MaxItems == 2

\* The most calls of start_new_order in one session.
MaxStarts == 2

\* The largest quantity argument tried; the smallest is 0.
MaxQty == 1

\* The most lines of the order that the removals by text start from.
MaxLines == 3

-----------------------------------------------------------------------------
(* Python str operations, on sequences of one-character strings *)

\* The characters with a small letter other than themselves, as str.lower()
\* has it, and in LowerLetters, at the same place, that small letter.  A string
\* here holds the characters up to 0xff but the grave accent and, of the others
\* up to 0xffff, those whose low byte is 0x80 or more; the tables hold every
\* such character that str.lower() changes into one such character.
UpperLetters ==
    <<"A","B","C","D","E","F","G","H","I","J","K","L","M","N","O","P","Q",
     "R","S","T","U","V","W","X","Y","Z","À","Á","Â","Ã","Ä","Å","Æ","Ç",
     "È","É","Ê","Ë","Ì","Í","Î","Ï","Ð","Ñ","Ò","Ó","Ô","Õ","Ö","Ø","Ù",
     "Ú","Û","Ü","Ý","Þ","Ƃ","Ƅ","Ƈ","Ƌ","Ǝ","Ƒ","Ƙ","Ơ","Ƣ","Ƥ","Ʀ","Ƨ",
     "Ʃ","Ƭ","Ʈ","Ư","Ʊ","Ʋ","Ƴ","Ƶ","Ʒ","Ƹ","Ƽ","Ǆ","ǅ","Ǉ","ǈ","Ǌ","ǋ",
     "Ǎ","Ǐ","Ǒ","Ǔ","Ǖ","Ǘ","Ǚ","Ǜ","Ǟ","Ǡ","Ǣ","Ǥ","Ǧ","Ǩ","Ǫ","Ǭ","Ǯ",
     "Ǳ","ǲ","Ǵ","Ƕ","Ƿ","Ǹ","Ǻ","Ǽ","Ǿ","Ά","Έ","Ή","Ί","Ό","Ύ","Ώ","Α",
     "Β","Γ","Δ","Ε","Ζ","Η","Θ","Ι","Κ","Λ","Μ","Ν","Ξ","Ο","Π","Ρ","Σ",
     "Τ","Υ","Φ","Χ","Ψ","Ω","Ϊ","Ϋ","Ϗ","Ϙ","Ϛ","Ϝ","Ϟ","Ϡ","Ϣ","Ϥ","Ϧ",
     "Ϩ","Ϫ","Ϭ","Ϯ","ϴ","Ϸ","Ϲ","Ϻ","Ҁ","Ҋ","Ҍ","Ҏ","Ґ","Ғ","Ҕ","Җ","Ҙ",
     "Қ","Ҝ","Ҟ","Ҡ","Ң","Ҥ","Ҧ","Ҩ","Ҫ","Ҭ","Ү","Ұ","Ҳ","Ҵ","Ҷ","Ҹ","Һ",
     "Ҽ","Ҿ","Ӏ","Ӂ","Ӄ","Ӆ","Ӈ","Ӊ","Ӌ","Ӎ","Ӑ","Ӓ","Ӕ","Ӗ","Ә","Ӛ","Ӝ",
     "Ӟ","Ӡ","Ӣ","Ӥ","Ӧ","Ө","Ӫ","Ӭ","Ӯ","Ӱ","Ӳ","Ӵ","Ӷ","Ӹ","Ӻ","Ӽ","Ӿ",
     "Ꮀ","Ꮁ","Ꮂ","Ꮃ","Ꮄ","Ꮅ","Ꮆ","Ꮇ","Ꮈ","Ꮉ","Ꮊ","Ꮋ","Ꮌ","Ꮍ","Ꮎ","Ꮏ","Ꮐ",
     "Ꮑ","Ꮒ","Ꮓ","Ꮔ","Ꮕ","Ꮖ","Ꮗ","Ꮘ","Ꮙ","Ꮚ","Ꮛ","Ꮜ","Ꮝ","Ꮞ","Ꮟ","Ꮠ","Ꮡ",
     "Ꮢ","Ꮣ","Ꮤ","Ꮥ","Ꮦ","Ꮧ","Ꮨ","Ꮩ","Ꮪ","Ꮫ","Ꮬ","Ꮭ","Ꮮ","Ꮯ","Ꮰ","Ꮱ","Ꮲ",
     "Ꮳ","Ꮴ","Ꮵ","Ꮶ","Ꮷ","Ꮸ","Ꮹ","Ꮺ","Ꮻ","Ꮼ","Ꮽ","Ꮾ","Ꮿ","Ᏸ","Ᏹ","Ᏺ","Ᏻ",
     "Ᏼ","Ᏽ","Ა","Ბ","Გ","Დ","Ე","Ვ","Ზ","Თ","Ი","Კ","Ლ","Მ","Ნ","Ო","Პ",
     "Ჟ","Რ","Ს","Ტ","Უ","Ფ","Ქ","Ღ","Ყ","Შ","Ჩ","Ც","Ძ","Წ","Ჭ","Ხ","Ჯ",
     "Ჰ","Ჱ","Ჲ","Ჳ","Ჴ","Ჵ","Ჶ","Ჷ","Ჸ","Ჹ","Ჺ","Ჽ","Ჾ","Ჿ","Ẁ","Ẃ","Ẅ",
     "Ẇ","Ẉ","Ẋ","Ẍ","Ẏ","Ẑ","Ẓ","Ẕ","ẞ","Ạ","Ả","Ấ","Ầ","Ẩ","Ẫ","Ậ","Ắ",
     "Ằ","Ẳ","Ẵ","Ặ","Ẹ","Ẻ","Ẽ","Ế","Ề","Ể","Ễ","Ệ","Ỉ","Ị","Ọ","Ỏ","Ố",
     "Ồ","Ổ","Ỗ","Ộ","Ớ","Ờ","Ở","Ỡ","Ợ","Ụ","Ủ","Ứ","Ừ","Ử","Ữ","Ự","Ỳ",
     "Ỵ","Ỷ","Ỹ","Ỻ","Ỽ","Ỿ","ᾈ","ᾉ","ᾊ","ᾋ","ᾌ","ᾍ","ᾎ","ᾏ","ᾘ","ᾙ","ᾚ",
     "ᾛ","ᾜ","ᾝ","ᾞ","ᾟ","ᾨ","ᾩ","ᾪ","ᾫ","ᾬ","ᾭ","ᾮ","ᾯ","Ᾰ","Ᾱ","ᾼ","ῌ",
     "Ῐ","Ῑ","Ῠ","Ῡ","Ῥ","ῼ","Ↄ","Ⓐ","Ⓑ","Ⓒ","Ⓓ","Ⓔ","Ⓕ","Ⓖ","Ⓗ","Ⓘ","Ⓙ",
     "Ⓚ","Ⓛ","Ⓜ","Ⓝ","Ⓞ","Ⓟ","Ⓠ","Ⓡ","Ⓢ","Ⓣ","Ⓤ","Ⓥ","Ⓦ","Ⓧ","Ⓨ","Ⓩ","Ⲁ",
     "Ⲃ","Ⲅ","Ⲇ","Ⲉ","Ⲋ","Ⲍ","Ⲏ","Ⲑ","Ⲓ","Ⲕ","Ⲗ","Ⲙ","Ⲛ","Ⲝ","Ⲟ","Ⲡ","Ⲣ",
     "Ⲥ","Ⲧ","Ⲩ","Ⲫ","Ⲭ","Ⲯ","Ⲱ","Ⲳ","Ⲵ","Ⲷ","Ⲹ","Ⲻ","Ⲽ","Ⲿ","Ⳁ","Ⳃ","Ⳅ",
     "Ⳇ","Ⳉ","Ⳋ","Ⳍ","Ⳏ","Ⳑ","Ⳓ","Ⳕ","Ⳗ","Ⳙ","Ⳛ","Ⳝ","Ⳟ","Ⳡ","Ⳣ","Ⳬ","Ⳮ",
     "Ⳳ","Ꚁ","Ꚃ","Ꚅ","Ꚇ","Ꚉ","Ꚋ","Ꚍ","Ꚏ","Ꚑ","Ꚓ","Ꚕ","Ꚗ","Ꚙ","Ꚛ","Ꞁ","Ꞃ",
     "Ꞅ","Ꞇ","Ꞌ","Ꞑ","Ꞓ","Ꞗ","Ꞙ","Ꞛ","Ꞝ","Ꞟ","Ꞡ","Ꞣ","Ꞥ","Ꞧ","Ꞩ","Ʞ","Ʇ",
     "Ʝ","Ꞵ","Ꞷ","Ꞹ","Ꞻ","Ꞽ","Ꞿ","Ꟁ","Ꟃ","Ꞔ","Ʂ","Ᶎ","Ꟈ","Ꟊ","Ꟑ","Ꟗ","Ꟙ",
     "Ꟶ">>

LowerLetters ==
    <<"a","b","c","d","e","f","g","h","i","j","k","l","m","n","o","p","q",
     "r","s","t","u","v","w","x","y","z","à","á","â","ã","ä","å","æ","ç",
     "è","é","ê","ë","ì","í","î","ï","ð","ñ","ò","ó","ô","õ","ö","ø","ù",
     "ú","û","ü","ý","þ","ƃ","ƅ","ƈ","ƌ","ǝ","ƒ","ƙ","ơ","ƣ","ƥ","ʀ","ƨ",
     "ʃ","ƭ","ʈ","ư","ʊ","ʋ","ƴ","ƶ","ʒ","ƹ","ƽ","ǆ","ǆ","ǉ","ǉ","ǌ","ǌ",
     "ǎ","ǐ","ǒ","ǔ","ǖ","ǘ","ǚ","ǜ","ǟ","ǡ","ǣ","ǥ","ǧ","ǩ","ǫ","ǭ","ǯ",
     "ǳ","ǳ","ǵ","ƕ","ƿ","ǹ","ǻ","ǽ","ǿ","ά","έ","ή","ί","ό","ύ","ώ","α",
     "β","γ","δ","ε","ζ","η","θ","ι","κ","λ","μ","ν","ξ","ο","π","ρ","σ",
     "τ","υ","φ","χ","ψ","ω","ϊ","ϋ","ϗ","ϙ","ϛ","ϝ","ϟ","ϡ","ϣ","ϥ","ϧ",
     "ϩ","ϫ","ϭ","ϯ","θ","ϸ","ϲ","ϻ","ҁ","ҋ","ҍ","ҏ","ґ","ғ","ҕ","җ","ҙ",
     "қ","ҝ","ҟ","ҡ","ң","ҥ","ҧ","ҩ","ҫ","ҭ","ү","ұ","ҳ","ҵ","ҷ","ҹ","һ",
     "ҽ","ҿ","ӏ","ӂ","ӄ","ӆ","ӈ","ӊ","ӌ","ӎ","ӑ","ӓ","ӕ","ӗ","ә","ӛ","ӝ",
     "ӟ","ӡ","ӣ","ӥ","ӧ","ө","ӫ","ӭ","ӯ","ӱ","ӳ","ӵ","ӷ","ӹ","ӻ","ӽ","ӿ",
     "ꮀ","ꮁ","ꮂ","ꮃ","ꮄ","ꮅ","ꮆ","ꮇ","ꮈ","ꮉ","ꮊ","ꮋ","ꮌ","ꮍ","ꮎ","ꮏ","ꮐ",
     "ꮑ","ꮒ","ꮓ","ꮔ","ꮕ","ꮖ","ꮗ","ꮘ","ꮙ","ꮚ","ꮛ","ꮜ","ꮝ","ꮞ","ꮟ","ꮠ","ꮡ",
     "ꮢ","ꮣ","ꮤ","ꮥ","ꮦ","ꮧ","ꮨ","ꮩ","ꮪ","ꮫ","ꮬ","ꮭ","ꮮ","ꮯ","ꮰ","ꮱ","ꮲ",
     "ꮳ","ꮴ","ꮵ","ꮶ","ꮷ","ꮸ","ꮹ","ꮺ","ꮻ","ꮼ","ꮽ","ꮾ","ꮿ","ᏸ","ᏹ","ᏺ","ᏻ",
     "ᏼ","ᏽ","ა","ბ","გ","დ","ე","ვ","ზ","თ","ი","კ","ლ","მ","ნ","ო","პ",
     "ჟ","რ","ს","ტ","უ","ფ","ქ","ღ","ყ","შ","ჩ","ც","ძ","წ","ჭ","ხ","ჯ",
     "ჰ","ჱ","ჲ","ჳ","ჴ","ჵ","ჶ","ჷ","ჸ","ჹ","ჺ","ჽ","ჾ","ჿ","ẁ","ẃ","ẅ",
     "ẇ","ẉ","ẋ","ẍ","ẏ","ẑ","ẓ","ẕ","ß","ạ","ả","ấ","ầ","ẩ","ẫ","ậ","ắ",
     "ằ","ẳ","ẵ","ặ","ẹ","ẻ","ẽ","ế","ề","ể","ễ","ệ","ỉ","ị","ọ","ỏ","ố",
     "ồ","ổ","ỗ","ộ","ớ","ờ","ở","ỡ","ợ","ụ","ủ","ứ","ừ","ử","ữ","ự","ỳ",
     "ỵ","ỷ","ỹ","ỻ","ỽ","ỿ","ᾀ","ᾁ","ᾂ","ᾃ","ᾄ","ᾅ","ᾆ","ᾇ","ᾐ","ᾑ","ᾒ",
     "ᾓ","ᾔ","ᾕ","ᾖ","ᾗ","ᾠ","ᾡ","ᾢ","ᾣ","ᾤ","ᾥ","ᾦ","ᾧ","ᾰ","ᾱ","ᾳ","ῃ",
     "ῐ","ῑ","ῠ","ῡ","ῥ","ῳ","ↄ","ⓐ","ⓑ","ⓒ","ⓓ","ⓔ","ⓕ","ⓖ","ⓗ","ⓘ","ⓙ",
     "ⓚ","ⓛ","ⓜ","ⓝ","ⓞ","ⓟ","ⓠ","ⓡ","ⓢ","ⓣ","ⓤ","ⓥ","ⓦ","ⓧ","ⓨ","ⓩ","ⲁ",
     "ⲃ","ⲅ","ⲇ","ⲉ","ⲋ","ⲍ","ⲏ","ⲑ","ⲓ","ⲕ","ⲗ","ⲙ","ⲛ","ⲝ","ⲟ","ⲡ","ⲣ",
     "ⲥ","ⲧ","ⲩ","ⲫ","ⲭ","ⲯ","ⲱ","ⲳ","ⲵ","ⲷ","ⲹ","ⲻ","ⲽ","ⲿ","ⳁ","ⳃ","ⳅ",
     "ⳇ","ⳉ","ⳋ","ⳍ","ⳏ","ⳑ","ⳓ","ⳕ","ⳗ","ⳙ","ⳛ","ⳝ","ⳟ","ⳡ","ⳣ","ⳬ","ⳮ",
     "ⳳ","ꚁ","ꚃ","ꚅ","ꚇ","ꚉ","ꚋ","ꚍ","ꚏ","ꚑ","ꚓ","ꚕ","ꚗ","ꚙ","ꚛ","ꞁ","ꞃ",
     "ꞅ","ꞇ","ꞌ","ꞑ","ꞓ","ꞗ","ꞙ","ꞛ","ꞝ","ꞟ","ꞡ","ꞣ","ꞥ","ꞧ","ꞩ","ʞ","ʇ",
     "ʝ","ꞵ","ꞷ","ꞹ","ꞻ","ꞽ","ꞿ","ꟁ","ꟃ","ꞔ","ʂ","ᶎ","ꟈ","ꟊ","ꟑ","ꟗ","ꟙ",
     "ꟶ">>

Capitals == { UpperLetters[i] : i \in 1..Len(UpperLetters) }

\* the small letter of each capital
LowerOf ==
    [c \in Capitals |->
        LowerLetters[CHOOSE i \in 1..Len(UpperLetters) : UpperLetters[i] = c]]

\* The capitals whose small letter a string here cannot hold: no text holds one.
CapitalsOutside ==
    {"Ɓ","Ɔ","Ɖ","Ɗ","Ə","Ɛ","Ɠ","Ɣ","Ɩ","Ɨ","Ɯ","Ɲ","Ɵ","Ͻ","Ͼ","Ͽ","Ⴀ",
     "Ⴁ","Ⴂ","Ⴃ","Ⴄ","Ⴅ","Ⴆ","Ⴇ","Ⴈ","Ⴉ","Ⴊ","Ⴋ","Ⴌ","Ⴍ","Ⴎ","Ⴏ","Ⴐ","Ⴑ",
     "Ⴒ","Ⴓ","Ⴔ","Ⴕ","Ⴖ","Ⴗ","Ⴘ","Ⴙ","Ⴚ","Ⴛ","Ⴜ","Ⴝ","Ⴞ","Ⴟ","Ⴠ","Ⴡ","Ⴢ",
     "Ⴣ","Ⴤ","Ⴥ","Ⴧ","Ⴭ","Ꭰ","Ꭱ","Ꭲ","Ꭳ","Ꭴ","Ꭵ","Ꭶ","Ꭷ","Ꭸ","Ꭹ","Ꭺ","Ꭻ",
     "Ꭼ","Ꭽ","Ꭾ","Ꭿ","Ὰ","Ά","Ὲ","Έ","Ὴ","Ή","Ὶ","Ί","Ὺ","Ύ","Ὸ","Ό","Ὼ",
     "Ώ","Ɥ","Ɦ","Ɜ","Ɡ","Ɬ","Ɪ","Ꭓ"}

\* str.lower() of one character (of the capital sigma alone: the small sigma)
LowerChar(c) ==
    CASE c \in Capitals -> LowerOf[c]
      [] c \notin Capitals /\ c \notin CapitalsOutside -> c

\* The cased characters that are not case-ignorable, and the case-ignorable
\* characters: str.lower() goes by them for the capital sigma.
CasedChars ==
    {"A","B","C","D","E","F","G","H","I","J","K","L","M","N","O","P","Q",
     "R","S","T","U","V","W","X","Y","Z","a","b","c","d","e","f","g","h",
     "i","j","k","l","m","n","o","p","q","r","s","t","u","v","w","x","y",
     "z","ª","µ","º","À","Á","Â","Ã","Ä","Å","Æ","Ç","È","É","Ê","Ë","Ì",
     "Í","Î","Ï","Ð","Ñ","Ò","Ó","Ô","Õ","Ö","Ø","Ù","Ú","Û","Ü","Ý","Þ",
     "ß","à","á","â","ã","ä","å","æ","ç","è","é","ê","ë","ì","í","î","ï",
     "ð","ñ","ò","ó","ô","õ","ö","ø","ù","ú","û","ü","ý","þ","ÿ","ƀ","Ɓ",
     "Ƃ","ƃ","Ƅ","ƅ","Ɔ","Ƈ","ƈ","Ɖ","Ɗ","Ƌ","ƌ","ƍ","Ǝ","Ə","Ɛ","Ƒ","ƒ",
     "Ɠ","Ɣ","ƕ","Ɩ","Ɨ","Ƙ","ƙ","ƚ","ƛ","Ɯ","Ɲ","ƞ","Ɵ","Ơ","ơ","Ƣ","ƣ",
     "Ƥ","ƥ","Ʀ","Ƨ","ƨ","Ʃ","ƪ","ƫ","Ƭ","ƭ","Ʈ","Ư","ư","Ʊ","Ʋ","Ƴ","ƴ",
     "Ƶ","ƶ","Ʒ","Ƹ","ƹ","ƺ","Ƽ","ƽ","ƾ","ƿ","Ǆ","ǅ","ǆ","Ǉ","ǈ","ǉ","Ǌ",
     "ǋ","ǌ","Ǎ","ǎ","Ǐ","ǐ","Ǒ","ǒ","Ǔ","ǔ","Ǖ","ǖ","Ǘ","ǘ","Ǚ","ǚ","Ǜ",
     "ǜ","ǝ","Ǟ","ǟ","Ǡ","ǡ","Ǣ","ǣ","Ǥ","ǥ","Ǧ","ǧ","Ǩ","ǩ","Ǫ","ǫ","Ǭ",
     "ǭ","Ǯ","ǯ","ǰ","Ǳ","ǲ","ǳ","Ǵ","ǵ","Ƕ","Ƿ","Ǹ","ǹ","Ǻ","ǻ","Ǽ","ǽ",
     "Ǿ","ǿ","ʀ","ʁ","ʂ","ʃ","ʄ","ʅ","ʆ","ʇ","ʈ","ʉ","ʊ","ʋ","ʌ","ʍ","ʎ",
     "ʏ","ʐ","ʑ","ʒ","ʓ","ʕ","ʖ","ʗ","ʘ","ʙ","ʚ","ʛ","ʜ","ʝ","ʞ","ʟ","ʠ",
     "ʡ","ʢ","ʣ","ʤ","ʥ","ʦ","ʧ","ʨ","ʩ","ʪ","ʫ","ʬ","ʭ","ʮ","ʯ","Ά","Έ",
     "Ή","Ί","Ό","Ύ","Ώ","ΐ","Α","Β","Γ","Δ","Ε","Ζ","Η","Θ","Ι","Κ","Λ",
     "Μ","Ν","Ξ","Ο","Π","Ρ","Σ","Τ","Υ","Φ","Χ","Ψ","Ω","Ϊ","Ϋ","ά","έ",
     "ή","ί","ΰ","α","β","γ","δ","ε","ζ","η","θ","ι","κ","λ","μ","ν","ξ",
     "ο","π","ρ","ς","σ","τ","υ","φ","χ","ψ","ω","ϊ","ϋ","ό","ύ","ώ","Ϗ",
     "ϐ","ϑ","ϒ","ϓ","ϔ","ϕ","ϖ","ϗ","Ϙ","ϙ","Ϛ","ϛ","Ϝ","ϝ","Ϟ","ϟ","Ϡ",
     "ϡ","Ϣ","ϣ","Ϥ","ϥ","Ϧ","ϧ","Ϩ","ϩ","Ϫ","ϫ","Ϭ","ϭ","Ϯ","ϯ","ϰ","ϱ",
     "ϲ","ϳ","ϴ","ϵ","Ϸ","ϸ","Ϲ","Ϻ","ϻ","ϼ","Ͻ","Ͼ","Ͽ","Ҁ","ҁ","Ҋ","ҋ",
     "Ҍ","ҍ","Ҏ","ҏ","Ґ","ґ","Ғ","ғ","Ҕ","ҕ","Җ","җ","Ҙ","ҙ","Қ","қ","Ҝ",
     "ҝ","Ҟ","ҟ","Ҡ","ҡ","Ң","ң","Ҥ","ҥ","Ҧ","ҧ","Ҩ","ҩ","Ҫ","ҫ","Ҭ","ҭ",
     "Ү","ү","Ұ","ұ","Ҳ","ҳ","Ҵ","ҵ","Ҷ","ҷ","Ҹ","ҹ","Һ","һ","Ҽ","ҽ","Ҿ",
     "ҿ","Ӏ","Ӂ","ӂ","Ӄ","ӄ","Ӆ","ӆ","Ӈ","ӈ","Ӊ","ӊ","Ӌ","ӌ","Ӎ","ӎ","ӏ",
     "Ӑ","ӑ","Ӓ","ӓ","Ӕ","ӕ","Ӗ","ӗ","Ә","ә","Ӛ","ӛ","Ӝ","ӝ","Ӟ","ӟ","Ӡ",
     "ӡ","Ӣ","ӣ","Ӥ","ӥ","Ӧ","ӧ","Ө","ө","Ӫ","ӫ","Ӭ","ӭ","Ӯ","ӯ","Ӱ","ӱ",
     "Ӳ","ӳ","Ӵ","ӵ","Ӷ","ӷ","Ӹ","ӹ","Ӻ","ӻ","Ӽ","ӽ","Ӿ","ӿ","ր","ց","ւ",
     "փ","ք","օ","ֆ","և","ֈ","Ⴀ","Ⴁ","Ⴂ","Ⴃ","Ⴄ","Ⴅ","Ⴆ","Ⴇ","Ⴈ","Ⴉ","Ⴊ",
     "Ⴋ","Ⴌ","Ⴍ","Ⴎ","Ⴏ","Ⴐ","Ⴑ","Ⴒ","Ⴓ","Ⴔ","Ⴕ","Ⴖ","Ⴗ","Ⴘ","Ⴙ","Ⴚ","Ⴛ",
     "Ⴜ","Ⴝ","Ⴞ","Ⴟ","Ⴠ","Ⴡ","Ⴢ","Ⴣ","Ⴤ","Ⴥ","Ⴧ","Ⴭ","ა","ბ","გ","დ","ე",
     "ვ","ზ","თ","ი","კ","ლ","მ","ნ","ო","პ","ჟ","რ","ს","ტ","უ","ფ","ქ",
     "ღ","ყ","შ","ჩ","ც","ძ","წ","ჭ","ხ","ჯ","ჰ","ჱ","ჲ","ჳ","ჴ","ჵ","ჶ",
     "ჷ","ჸ","ჹ","ჺ","ჽ","ჾ","ჿ","Ꭰ","Ꭱ","Ꭲ","Ꭳ","Ꭴ","Ꭵ","Ꭶ","Ꭷ","Ꭸ","Ꭹ",
     "Ꭺ","Ꭻ","Ꭼ","Ꭽ","Ꭾ","Ꭿ","Ꮀ","Ꮁ","Ꮂ","Ꮃ","Ꮄ","Ꮅ","Ꮆ","Ꮇ","Ꮈ","Ꮉ","Ꮊ",
     "Ꮋ","Ꮌ","Ꮍ","Ꮎ","Ꮏ","Ꮐ","Ꮑ","Ꮒ","Ꮓ","Ꮔ","Ꮕ","Ꮖ","Ꮗ","Ꮘ","Ꮙ","Ꮚ","Ꮛ",
     "Ꮜ","Ꮝ","Ꮞ","Ꮟ","Ꮠ","Ꮡ","Ꮢ","Ꮣ","Ꮤ","Ꮥ","Ꮦ","Ꮧ","Ꮨ","Ꮩ","Ꮪ","Ꮫ","Ꮬ",
     "Ꮭ","Ꮮ","Ꮯ","Ꮰ","Ꮱ","Ꮲ","Ꮳ","Ꮴ","Ꮵ","Ꮶ","Ꮷ","Ꮸ","Ꮹ","Ꮺ","Ꮻ","Ꮼ","Ꮽ",
     "Ꮾ","Ꮿ","Ᏸ","Ᏹ","Ᏺ","Ᏻ","Ᏼ","Ᏽ","ᏸ","ᏹ","ᏺ","ᏻ","ᏼ","ᏽ","ᲀ","ᲁ","ᲂ",
     "ᲃ","ᲄ","ᲅ","ᲆ","ᲇ","ᲈ","Ა","Ბ","Გ","Დ","Ე","Ვ","Ზ","Თ","Ი","Კ","Ლ",
     "Მ","Ნ","Ო","Პ","Ჟ","Რ","Ს","Ტ","Უ","Ფ","Ქ","Ღ","Ყ","Შ","Ჩ","Ც","Ძ",
     "Წ","Ჭ","Ხ","Ჯ","Ჰ","Ჱ","Ჲ","Ჳ","Ჴ","Ჵ","Ჶ","Ჷ","Ჸ","Ჹ","Ჺ","Ჽ","Ჾ",
     "Ჿ","ᶀ","ᶁ","ᶂ","ᶃ","ᶄ","ᶅ","ᶆ","ᶇ","ᶈ","ᶉ","ᶊ","ᶋ","ᶌ","ᶍ","ᶎ","ᶏ",
     "ᶐ","ᶑ","ᶒ","ᶓ","ᶔ","ᶕ","ᶖ","ᶗ","ᶘ","ᶙ","ᶚ","Ẁ","ẁ","Ẃ","ẃ","Ẅ","ẅ",
     "Ẇ","ẇ","Ẉ","ẉ","Ẋ","ẋ","Ẍ","ẍ","Ẏ","ẏ","Ẑ","ẑ","Ẓ","ẓ","Ẕ","ẕ","ẖ",
     "ẗ","ẘ","ẙ","ẚ","ẛ","ẜ","ẝ","ẞ","ẟ","Ạ","ạ","Ả","ả","Ấ","ấ","Ầ","ầ",
     "Ẩ","ẩ","Ẫ","ẫ","Ậ","ậ","Ắ","ắ","Ằ","ằ","Ẳ","ẳ","Ẵ","ẵ","Ặ","ặ","Ẹ",
     "ẹ","Ẻ","ẻ","Ẽ","ẽ","Ế","ế","Ề","ề","Ể","ể","Ễ","ễ","Ệ","ệ","Ỉ","ỉ",
     "Ị","ị","Ọ","ọ","Ỏ","ỏ","Ố","ố","Ồ","ồ","Ổ","ổ","Ỗ","ỗ","Ộ","ộ","Ớ",
     "ớ","Ờ","ờ","Ở","ở","Ỡ","ỡ","Ợ","ợ","Ụ","ụ","Ủ","ủ","Ứ","ứ","Ừ","ừ",
     "Ử","ử","Ữ","ữ","Ự","ự","Ỳ","ỳ","Ỵ","ỵ","Ỷ","ỷ","Ỹ","ỹ","Ỻ","ỻ","Ỽ",
     "ỽ","Ỿ","ỿ","ᾀ","ᾁ","ᾂ","ᾃ","ᾄ","ᾅ","ᾆ","ᾇ","ᾈ","ᾉ","ᾊ","ᾋ","ᾌ","ᾍ",
     "ᾎ","ᾏ","ᾐ","ᾑ","ᾒ","ᾓ","ᾔ","ᾕ","ᾖ","ᾗ","ᾘ","ᾙ","ᾚ","ᾛ","ᾜ","ᾝ","ᾞ",
     "ᾟ","ᾠ","ᾡ","ᾢ","ᾣ","ᾤ","ᾥ","ᾦ","ᾧ","ᾨ","ᾩ","ᾪ","ᾫ","ᾬ","ᾭ","ᾮ","ᾯ",
     "ᾰ","ᾱ","ᾲ","ᾳ","ᾴ","ᾶ","ᾷ","Ᾰ","Ᾱ","Ὰ","Ά","ᾼ","ι","ῂ","ῃ","ῄ","ῆ",
     "ῇ","Ὲ","Έ","Ὴ","Ή","ῌ","ῐ","ῑ","ῒ","ΐ","ῖ","ῗ","Ῐ","Ῑ","Ὶ","Ί","ῠ",
     "ῡ","ῢ","ΰ","ῤ","ῥ","ῦ","ῧ","Ῠ","Ῡ","Ὺ","Ύ","Ῥ","ῲ","ῳ","ῴ","ῶ","ῷ",
     "Ὸ","Ό","Ὼ","Ώ","ῼ","Ↄ","ↄ","Ⓐ","Ⓑ","Ⓒ","Ⓓ","Ⓔ","Ⓕ","Ⓖ","Ⓗ","Ⓘ","Ⓙ",
     "Ⓚ","Ⓛ","Ⓜ","Ⓝ","Ⓞ","Ⓟ","Ⓠ","Ⓡ","Ⓢ","Ⓣ","Ⓤ","Ⓥ","Ⓦ","Ⓧ","Ⓨ","Ⓩ","ⓐ",
     "ⓑ","ⓒ","ⓓ","ⓔ","ⓕ","ⓖ","ⓗ","ⓘ","ⓙ","ⓚ","ⓛ","ⓜ","ⓝ","ⓞ","ⓟ","ⓠ","ⓡ",
     "ⓢ","ⓣ","ⓤ","ⓥ","ⓦ","ⓧ","ⓨ","ⓩ","Ⲁ","ⲁ","Ⲃ","ⲃ","Ⲅ","ⲅ","Ⲇ","ⲇ","Ⲉ",
     "ⲉ","Ⲋ","ⲋ","Ⲍ","ⲍ","Ⲏ","ⲏ","Ⲑ","ⲑ","Ⲓ","ⲓ","Ⲕ","ⲕ","Ⲗ","ⲗ","Ⲙ","ⲙ",
     "Ⲛ","ⲛ","Ⲝ","ⲝ","Ⲟ","ⲟ","Ⲡ","ⲡ","Ⲣ","ⲣ","Ⲥ","ⲥ","Ⲧ","ⲧ","Ⲩ","ⲩ","Ⲫ",
     "ⲫ","Ⲭ","ⲭ","Ⲯ","ⲯ","Ⲱ","ⲱ","Ⲳ","ⲳ","Ⲵ","ⲵ","Ⲷ","ⲷ","Ⲹ","ⲹ","Ⲻ","ⲻ",
     "Ⲽ","ⲽ","Ⲿ","ⲿ","Ⳁ","ⳁ","Ⳃ","ⳃ","Ⳅ","ⳅ","Ⳇ","ⳇ","Ⳉ","ⳉ","Ⳋ","ⳋ","Ⳍ",
     "ⳍ","Ⳏ","ⳏ","Ⳑ","ⳑ","Ⳓ","ⳓ","Ⳕ","ⳕ","Ⳗ","ⳗ","Ⳙ","ⳙ","Ⳛ","ⳛ","Ⳝ","ⳝ",
     "Ⳟ","ⳟ","Ⳡ","ⳡ","Ⳣ","ⳣ","ⳤ","Ⳬ","ⳬ","Ⳮ","ⳮ","Ⳳ","ⳳ","Ꚁ","ꚁ","Ꚃ","ꚃ",
     "Ꚅ","ꚅ","Ꚇ","ꚇ","Ꚉ","ꚉ","Ꚋ","ꚋ","Ꚍ","ꚍ","Ꚏ","ꚏ","Ꚑ","ꚑ","Ꚓ","ꚓ","Ꚕ",
     "ꚕ","Ꚗ","ꚗ","Ꚙ","ꚙ","Ꚛ","ꚛ","Ꞁ","ꞁ","Ꞃ","ꞃ","Ꞅ","ꞅ","Ꞇ","ꞇ","Ꞌ","ꞌ",
     "Ɥ","ꞎ","Ꞑ","ꞑ","Ꞓ","ꞓ","ꞔ","ꞕ","Ꞗ","ꞗ","Ꞙ","ꞙ","Ꞛ","ꞛ","Ꞝ","ꞝ","Ꞟ",
     "ꞟ","Ꞡ","ꞡ","Ꞣ","ꞣ","Ꞥ","ꞥ","Ꞧ","ꞧ","Ꞩ","ꞩ","Ɦ","Ɜ","Ɡ","Ɬ","Ɪ","ꞯ",
     "Ʞ","Ʇ","Ʝ","Ꭓ","Ꞵ","ꞵ","Ꞷ","ꞷ","Ꞹ","ꞹ","Ꞻ","ꞻ","Ꞽ","ꞽ","Ꞿ","ꞿ","Ꟁ",
     "ꟁ","Ꟃ","ꟃ","Ꞔ","Ʂ","Ᶎ","Ꟈ","ꟈ","Ꟊ","ꟊ","Ꟑ","ꟑ","ꟓ","ꟕ","Ꟗ","ꟗ","Ꟙ",
     "ꟙ","Ꟶ","ꟶ","ꟺ","ꮀ","ꮁ","ꮂ","ꮃ","ꮄ","ꮅ","ꮆ","ꮇ","ꮈ","ꮉ","ꮊ","ꮋ","ꮌ",
     "ꮍ","ꮎ","ꮏ","ꮐ","ꮑ","ꮒ","ꮓ","ꮔ","ꮕ","ꮖ","ꮗ","ꮘ","ꮙ","ꮚ","ꮛ","ꮜ","ꮝ",
     "ꮞ","ꮟ","ꮠ","ꮡ","ꮢ","ꮣ","ꮤ","ꮥ","ꮦ","ꮧ","ꮨ","ꮩ","ꮪ","ꮫ","ꮬ","ꮭ","ꮮ",
     "ꮯ","ꮰ","ꮱ","ꮲ","ꮳ","ꮴ","ꮵ","ꮶ","ꮷ","ꮸ","ꮹ","ꮺ","ꮻ","ꮼ","ꮽ","ꮾ","ꮿ"}

CaseIgnorableChars ==
    {"'",".",":","^","¨","­","¯","´","·","¸","ʰ","ʱ","ʲ","ʳ","ʴ","ʵ","ʶ",
     "ʷ","ʸ","ʹ","ʺ","ʻ","ʼ","ʽ","ʾ","ʿ","ˀ","ˁ","˂","˃","˄","˅","ˆ","ˇ",
     "ˈ","ˉ","ˊ","ˋ","ˌ","ˍ","ˎ","ˏ","ː","ˑ","˒","˓","˔","˕","˖","˗","˘",
     "˙","˚","˛","˜","˝","˞","˟","ˠ","ˡ","ˢ","ˣ","ˤ","˥","˦","˧","˨","˩",
     "˪","˫","ˬ","˭","ˮ","˯","˰","˱","˲","˳","˴","˵","˶","˷","˸","˹","˺",
     "˻","˼","˽","˾","˿","΄","΅","·","҃","҄","҅","҆","҇","҈","҉","֑","֒",
     "֓","֔","֕","֖","֗","֘","֙","֚","֛","֜","֝","֞","֟","֠","֡","֢","֣",
     "֤","֥","֦","֧","֨","֩","֪","֫","֬","֭","֮","֯","ְ","ֱ","ֲ","ֳ","ִ",
     "ֵ","ֶ","ַ","ָ","ֹ","ֺ","ֻ","ּ","ֽ","ֿ","ׁ","ׂ","ׄ","ׅ","ׇ","״","ۖ",
     "ۗ","ۘ","ۙ","ۚ","ۛ","ۜ","۝","۟","۠","ۡ","ۢ","ۣ","ۤ","ۥ","ۦ","ۧ","ۨ",
     "۪","۫","۬","ۭ","ަ","ާ","ި","ީ","ު","ޫ","ެ","ޭ","ޮ","ޯ","ް","߫","߬",
     "߭","߮","߯","߰","߱","߲","߳","ߴ","ߵ","ߺ","߽","࢈","࢐","࢑","࢘","࢙","࢚",
     "࢛","࢜","࢝","࢞","࢟","ࣉ","࣊","࣋","࣌","࣍","࣎","࣏","࣐","࣑","࣒","࣓","ࣔ",
     "ࣕ","ࣖ","ࣗ","ࣘ","ࣙ","ࣚ","ࣛ","ࣜ","ࣝ","ࣞ","ࣟ","࣠","࣡","࣢","ࣣ","ࣤ","ࣥ",
     "ࣦ","ࣧ","ࣨ","ࣩ","࣪","࣫","࣬","࣭","࣮","࣯","ࣰ","ࣱ","ࣲ","ࣳ","ࣴ","ࣵ","ࣶ",
     "ࣷ","ࣸ","ࣹ","ࣺ","ࣻ","ࣼ","ࣽ","ࣾ","ࣿ","ঁ","়","ু","ূ","ৃ","ৄ","্","ৢ",
     "ৣ","৾","ઁ","ં","઼","ુ","ૂ","ૃ","ૄ","ૅ","ે","ૈ","્","ૢ","ૣ","ૺ","ૻ",
     "ૼ","૽","૾","૿","ஂ","ீ","்","ಁ","಼","ಿ","ೆ","ೌ","್","ೢ","ೣ","ඁ","්",
     "ි","ී","ු","ූ","ັ","ິ","ີ","ຶ","ື","ຸ","ູ","຺","ົ","ຼ","ໆ","່","້",
     "໊","໋","໌","ໍ","ྀ","ཱྀ","ྂ","ྃ","྄","྆","྇","ྍ","ྎ","ྏ","ྐ","ྑ","ྒ",
     "ྒྷ","ྔ","ྕ","ྖ","ྗ","ྙ","ྚ","ྛ","ྜ","ྜྷ","ྞ","ྟ","ྠ","ྡ","ྡྷ","ྣ","ྤ",
     "ྥ","ྦ","ྦྷ","ྨ","ྩ","ྪ","ྫ","ྫྷ","ྭ","ྮ","ྯ","ྰ","ྱ","ྲ","ླ","ྴ","ྵ",
     "ྶ","ྷ","ྸ","ྐྵ","ྺ","ྻ","ྼ","࿆","ႂ","ႅ","ႆ","ႍ","ႝ","ჼ","឴","឵","ិ",
     "ី","ឹ","ឺ","ុ","ូ","ួ","ំ","៉","៊","់","៌","៍","៎","៏","័","៑","្",
     "៓","ៗ","៝","ᢅ","ᢆ","ᢩ","ᪧ","᪰","᪱","᪲","᪳","᪴","᪵","᪶","᪷","᪸","᪹",
     "᪺","᪻","᪼","᪽","᪾","ᪿ","ᫀ","᫁","᫂","᫃","᫄","᫅","᫆","᫇","᫈","᫉","᫊",
     "᫋","ᫌ","ᫍ","ᫎ","ᮀ","ᮁ","ᮢ","ᮣ","ᮤ","ᮥ","ᮨ","ᮩ","᮫","ᮬ","ᮭ","᯦","ᯨ",
     "ᯩ","ᯭ","ᯯ","ᯰ","ᯱ","᳐","᳑","᳒","᳔","᳕","᳖","᳗","᳘","᳙","᳚","᳛","᳜",
     "᳝","᳞","᳟","᳠","᳢","᳣","᳤","᳥","᳦","᳧","᳨","᳭","᳴","᳸","᳹","ᶛ","ᶜ",
     "ᶝ","ᶞ","ᶟ","ᶠ","ᶡ","ᶢ","ᶣ","ᶤ","ᶥ","ᶦ","ᶧ","ᶨ","ᶩ","ᶪ","ᶫ","ᶬ","ᶭ",
     "ᶮ","ᶯ","ᶰ","ᶱ","ᶲ","ᶳ","ᶴ","ᶵ","ᶶ","ᶷ","ᶸ","ᶹ","ᶺ","ᶻ","ᶼ","ᶽ","ᶾ",
     "ᶿ","᷀","᷁","᷂","᷃","᷄","᷅","᷆","᷇","᷈","᷉","᷊","᷋","᷌","᷍","᷎","᷏",
     "᷐","᷑","᷒","ᷓ","ᷔ","ᷕ","ᷖ","ᷗ","ᷘ","ᷙ","ᷚ","ᷛ","ᷜ","ᷝ","ᷞ","ᷟ","ᷠ",
     "ᷡ","ᷢ","ᷣ","ᷤ","ᷥ","ᷦ","ᷧ","ᷨ","ᷩ","ᷪ","ᷫ","ᷬ","ᷭ","ᷮ","ᷯ","ᷰ","ᷱ",
     "ᷲ","ᷳ","ᷴ","᷵","᷶","᷷","᷸","᷹","᷺","᷻","᷼","᷽","᷾","᷿","᾽","᾿","῀",
     "῁","῍","῎","῏","῝","῞","῟","῭","΅","`","´","῾","ₐ","ₑ","ₒ","ₓ","ₔ",
     "ₕ","ₖ","ₗ","ₘ","ₙ","ₚ","ₛ","ₜ","⃐","⃑","⃒","⃓","⃔","⃕","⃖","⃗","⃘",
     "⃙","⃚","⃛","⃜","⃝","⃞","⃟","⃠","⃡","⃢","⃣","⃤","⃥","⃦","⃧","⃨","⃩",
     "⃪","⃫","⃬","⃭","⃮","⃯","⃰","⳯","⳰","⳱","ⷠ","ⷡ","ⷢ","ⷣ","ⷤ","ⷥ","ⷦ",
     "ⷧ","ⷨ","ⷩ","ⷪ","ⷫ","ⷬ","ⷭ","ⷮ","ⷯ","ⷰ","ⷱ","ⷲ","ⷳ","ⷴ","ⷵ","ⷶ","ⷷ",
     "ⷸ","ⷹ","ⷺ","ⷻ","ⷼ","ⷽ","ⷾ","ⷿ","゙","゚","゛","゜","ゝ","ゞ","ー","ヽ","ヾ",
     "ꓸ","ꓹ","ꓺ","ꓻ","ꓼ","ꓽ","ꚜ","ꚝ","ꚞ","ꚟ","꛰","꛱","ꞈ","꞉","꞊","ꟲ","ꟳ",
     "ꟴ","ꟸ","ꟹ","꣄","ꣅ","꣠","꣡","꣢","꣣","꣤","꣥","꣦","꣧","꣨","꣩","꣪","꣫",
     "꣬","꣭","꣮","꣯","꣰","꣱","ꣿ","ꦀ","ꦁ","ꦂ","꦳","ꦶ","ꦷ","ꦸ","ꦹ","ꦼ","ꦽ",
     "ꧏ","ꧥ","ꧦ","ꪰ","ꪲ","ꪳ","ꪴ","ꪷ","ꪸ","ꪾ","꪿","꫁","ꫝ","ꫬ","ꫭ","ꫳ","ꫴ",
     "꫶","ꯥ","ꯨ","꯭","﮲","﮳","﮴","﮵","﮶","﮷","﮸","﮹","﮺","﮻","﮼","﮽","﮾",
     "﮿","﯀","﯁","﯂","﻿","ﾞ","ﾟ","￣","￹","￺","￻"}

\* Whether the capital sigma at s[i] ends a word: a cased character comes
\* before it and none after it, case-ignorable characters between being
\* skipped.
FinalSigma(s, i) ==
    /\ \E j \in 1..(i-1) :
           /\ s[j] \in CasedChars
           /\ \A k \in (j+1)..(i-1) : s[k] \in CaseIgnorableChars
    /\ ~\E j \in (i+1)..Len(s) :
           /\ s[j] \in CasedChars
           /\ \A k \in (i+1)..(j-1) : s[k] \in CaseIgnorableChars

\* str.lower(): the small letter of every character; the capital sigma that
\* ends a word becomes the final small sigma
Lower(s) ==
    [i \in 1..Len(s) |->
        IF s[i] = "Σ" /\ FinalSigma(s, i) THEN "ς" ELSE LowerChar(s[i])]

\* The characters str.isspace() holds for, which str.strip() and str.split() go
\* by: the tab, the line feed, the vertical tab, the form feed, the carriage
\* return, the separators 0x1c to 0x1f, the blank, the next line 0x85, the
\* no-break space 0xa0 and the ogham space mark 0x1680.  (The spaces from
\* 0x2000 on, the last of the characters Python counts as whitespace, cannot be
\* written in a string and are in none of the texts.)
WhitespaceChars ==
    {"\t", "\n", "", "\f", "\r", "", "", "", "", " ",
     "", " ", " "}

IsSpace(c) == c \in WhitespaceChars

\* str.strip(): drop the whitespace at both ends
Strip(s) ==
    IF \A i \in 1..Len(s) : IsSpace(s[i]) THEN <<>>
    ELSE LET first == CHOOSE i \in 1..Len(s) :
                          /\ ~IsSpace(s[i])
                          /\ \A j \in 1..(i-1) : IsSpace(s[j])
             lastc == CHOOSE i \in 1..Len(s) :
                          /\ ~IsSpace(s[i])
                          /\ \A j \in (i+1)..Len(s) : IsSpace(s[j])
         IN  SubSeq(s, first, lastc)

\* whether p occurs in s at position i
StartsAt(s, p, i) ==
    /\ i + Len(p) - 1 <= Len(s)
    /\ SubSeq(s, i, i + Len(p) - 1) = p

RECURSIVE ReplaceFrom(_, _, _, _)
ReplaceFrom(s, old, new, i) ==
    IF i > Len(s) THEN <<>>
    ELSE IF StartsAt(s, old, i)
         THEN new \o ReplaceFrom(s, old, new, i + Len(old))
         ELSE <<s[i]>> \o ReplaceFrom(s, old, new, i + 1)

\* str.replace(old, new) for a non-empty old: leftmost occurrences, not overlapping
Replace(s, old, new) == ReplaceFrom(s, old, new, 1)

\* the Python expression `sub in s` on two str
Contains(sub, s) == \E i \in 1..(Len(s) - Len(sub) + 1) : StartsAt(s, sub, i)

\* set(s.split()): the maximal runs of non-whitespace characters
Tokens(s) ==
    { SubSeq(s, i, j) : <<i, j>> \in
        { p \in (1..Len(s)) \X (1..Len(s)) :
            /\ p[1] <= p[2]
            /\ \A k \in p[1]..p[2] : ~IsSpace(s[k])
            /\ (p[1] = 1 \/ IsSpace(s[p[1] - 1]))
            /\ (p[2] = Len(s) \/ IsSpace(s[p[2] + 1])) } }

-----------------------------------------------------------------------------
(* The text that appears in the source *)

S_and   == <<" ","a","n","d"," ">>
S_amp   == <<" ","&"," ">>
S_with  == <<" ","w","i","t","h"," ">>
S_w     == <<" ","w","/"," ">>
S_meal  == <<" ","m","e","a","l">>
S_milk  == <<"m","i","l","k">>
S_coffee == <<"c","o","f","f","e","e">>

-----------------------------------------------------------------------------
(* MenuScraper *)

\* the keys of MenuScraper.categories, in the order __init__ inserts them (the
\* source's "McCafé Coffees" is written without the accent)
CategoryNames == <<"Featured Favorites", "Breakfast", "Burgers",
                   "Chicken & Fish Sandwiches", "McNuggets", "Fries & Sides",
                   "Happy Meal", "McCafe Coffees", "Sweets & Treats", "Beverages">>

CategorySet == { CategoryNames[i] : i \in 1..Len(CategoryNames) }

\* category_name[:3]
Prefix3 == [c \in CategorySet |->
    CASE c = "Featured Favorites"        -> "Fea"
      [] c = "Breakfast"                 -> "Bre"
      [] c = "Burgers"                   -> "Bur"
      [] c = "Chicken & Fish Sandwiches" -> "Chi"
      [] c = "McNuggets"                 -> "McN"
      [] c = "Fries & Sides"             -> "Fri"
      [] c = "Happy Meal"                -> "Hap"
      [] c = "McCafe Coffees"            -> "McC"
      [] c = "Sweets & Treats"           -> "Swe"
      [] c = "Beverages"                 -> "Bev"]

\* _get_base_price, in cents
BasePrice(category) ==
    CASE category = "Featured Favorites"        -> 599
      [] category = "Breakfast"                 -> 499
      [] category = "Burgers"                   -> 549
      [] category = "Chicken & Fish Sandwiches" -> 599
      [] category = "McNuggets"                 -> 499
      [] category = "Fries & Sides"             -> 299
      [] category = "Happy Meal"                -> 449
      [] category = "McCafe Coffees"            -> 399
      [] category = "Sweets & Treats"           -> 299
      [] category = "Beverages"                 -> 199
      [] OTHER                                  -> 499

AllSizes == <<"small", "medium", "large">>

\* _get_available_sizes
AvailableSizes(category) ==
    IF category \in {"Beverages", "McCafe Coffees", "Fries & Sides"}
    THEN AllSizes ELSE NoSizes

\* Python's float is the binary64 double: 53 significant bits.
SigBits == 53

\* A double is held exactly, as the bits of a fixed-point number: IntBits bits
\* before the point and FracBits after it, the most significant first.  The
\* amounts of the model are below 16 and, unless 0, at least 0.001, so that the
\* 53 significant bits and the bit after them lie within these bits.
IntBits == 4

FracBits == 64

\* the k low bits of n, the most significant first
BitsOf(n, k) == [i \in 1..k |-> (n \div 2^(k - i)) % 2]

\* what is left of r / den, for r < den <= 1000, after its first i bits after
\* the point: (r * 2^i) % den, taken twenty bits at a time to stay within the
\* integers
RECURSIVE RemAfter(_, _, _)
RemAfter(r, den, i) ==
    IF i <= 20 THEN (r * 2^i) % den
    ELSE RemAfter((r * 2^20) % den, den, i - 20)

\* num / den cut off after FracBits bits: the bits, and rem, which is 0 exactly
\* when nothing was cut off
Expansion(num, den) ==
    [bits |-> BitsOf(num \div den, IntBits) \o
              [i \in 1..FracBits |->
                  IF 2 * RemAfter(num % den, den, i - 1) >= den THEN 1 ELSE 0],
     rem  |-> RemAfter(num % den, den, FracBits)]

\* bits with 1 added at position l
AddOne(bits, l) ==
    LET i == CHOOSE k \in 1..l : bits[k] = 0 /\ \A m \in (k+1)..l : bits[m] = 1
    IN  [k \in 1..Len(bits) |-> IF k < i THEN bits[k] ELSE IF k = i THEN 1 ELSE 0]

\* The double nearest to the number x = [bits, rem]: its 53 significant bits
\* are kept; what follows them takes the last one up when it is more than half
\* a unit of it, or exactly half and the last bit is odd.
Nearest(x) ==
    IF \A i \in 1..Len(x.bits) : x.bits[i] = 0 THEN x.bits
    ELSE LET p == CHOOSE i \in 1..Len(x.bits) :
                      x.bits[i] = 1 /\ \A j \in 1..(i-1) : x.bits[j] = 0
             l == p + SigBits - 1
         IN  IF l >= Len(x.bits) THEN x.bits
             ELSE LET kept   == [i \in 1..Len(x.bits) |->
                                    IF i <= l THEN x.bits[i] ELSE 0]
                      half   == x.bits[l + 1] = 1
                      sticky == \/ x.rem # 0
                                \/ \E i \in (l+2)..Len(x.bits) : x.bits[i] = 1
                  IN  IF half /\ (sticky \/ x.bits[l] = 1)
                      THEN AddOne(kept, l) ELSE kept

\* the double a literal or a division num / den gives
Double(num, den) == Nearest(Expansion(num, den))

\* whether adding a and b carries into position i: some position after i holds
\* two ones, and every position between holds one
CarryInto(a, b, i) ==
    \E k \in (i+1)..Len(a) :
        /\ a[k] + b[k] = 2
        /\ \A m \in (i+1)..(k-1) : a[m] + b[m] = 1

\* a + b on two doubles: the sum, then the double nearest to it
DoubleAdd(a, b) ==
    Nearest([bits |-> [i \in 1..Len(a) |->
                          (a[i] + b[i] + IF CarryInto(a, b, i) THEN 1 ELSE 0) % 2],
             rem  |-> 0])

\* a < b on two numbers held as bits
BitsLess(a, b) ==
    \E i \in 1..Len(a) : a[i] < b[i] /\ \A j \in 1..(i-1) : a[j] = b[j]

\* round(d, 2), in cents, of a double d that is mills / 1000 up to the rounding
\* of doubles, mills being in tenths of a cent.  round gives the cent nearest to
\* what d holds.  When mills is on a half cent, d lies above the half cent,
\* below it, or on it, and only then does the tie go to the even cent.
Round(d, mills) ==
    LET q == mills \div 10
        r == mills % 10
        t == Expansion(mills, 1000)
    IN  IF r < 5 THEN q
        ELSE IF r > 5 THEN q + 1
        ELSE IF BitsLess(t.bits, d) THEN q + 1
        ELSE IF BitsLess(d, t.bits) \/ t.rem # 0 THEN q
        ELSE IF q % 2 = 0 THEN q ELSE q + 1

\* round(x, 2), in cents, of the double x written as mills / 1000
RoundCents(mills) == Round(Double(mills, 1000), mills)

\* random.uniform(0, 2) for the k-th item of one scrape, in tenths of a cent
Jitter(rnd, k) == rnd[((k - 1) % Len(rnd)) + 1]

\* d[key] = value on a dict held as the sequence of its values
DictSet(d, item) ==
    IF \E i \in 1..Len(d) : d[i].id = item.id
    THEN [i \in 1..Len(d) |-> IF d[i].id = item.id THEN item ELSE d[i]]
    ELSE Append(d, item)

\* key in d
DictHas(d, id) == \E i \in 1..Len(d) : d[i].id = id

\* d[key]
DictGet(d, id) == d[CHOOSE i \in 1..Len(d) : d[i].id = id]

\* Price with the fallback of line 113 taken for every category
Price_DefaultBase(category_name, jitter) ==
    Round(DoubleAdd(Double(499, 100), Double(jitter, 1000)), 499 * 10 + jitter)

\* lines 78-79: round(base_price + random.uniform(0, 2), 2), in cents; the
\* base price is the double of its literal, the jitter the double jitter / 1000
Price(category_name, jitter) ==
    Round(DoubleAdd(Double(BasePrice(category_name), 100), Double(jitter, 1000)),
          BasePrice(category_name) * 10 + jitter)

\* MakeMenuItem with an id that does not count the items stored so far
MakeMenuItem_NoCounter(md, category_name, item_name, jitter) ==
    [id              |-> <<Prefix3[category_name], 1>>,
     name            |-> item_name,
     price           |-> Price(category_name, jitter),
     category        |-> category_name,
     available_sizes |-> AvailableSizes(category_name),
     is_available    |-> TRUE]

\* the MenuItem built at lines 75-89 for the text of one <li>
MakeMenuItem(md, category_name, item_name, jitter) ==
    [id              |-> <<Prefix3[category_name], Len(md) + 1>>,
     name            |-> item_name,
     price           |-> Price(category_name, jitter),
     category        |-> category_name,
     available_sizes |-> AvailableSizes(category_name),
     is_available    |-> TRUE]

\* the inner loop of scrape_menu over the <li> elements of one category, from
\* the i-th on; st is [md, cats, n]: the two dicts and the number of jitters drawn
RECURSIVE ScrapeItems(_, _, _, _, _)
ScrapeItems(st, category_name, items, i, rnd) ==
    IF i > Len(items) THEN st
    ELSE LET item_name == Strip(items[i])
         IN  IF item_name = <<>>
             THEN ScrapeItems(st, category_name, items, i + 1, rnd)
             ELSE LET menu_item == MakeMenuItem(st.md, category_name, item_name,
                                                Jitter(rnd, st.n + 1))
                      st2 == [md   |-> DictSet(st.md, menu_item),
                              cats |-> [st.cats EXCEPT ![category_name] =
                                            Append(@, menu_item)],
                              n    |-> st.n + 1,
                              raised |-> FALSE]
                  IN  ScrapeItems(st2, category_name, items, i + 1, rnd)

\* the outer loop of scrape_menu over the categories, from the c-th on.  A page
\* maps the categories that have an <h2> to [ul, li]: whether a <ul> follows and
\* the texts of its <li>.  Without a <ul>, find_next returns None and .find_all
\* raises: the loop stops with what it has stored so far.
RECURSIVE ScrapeCategories(_, _, _, _)
ScrapeCategories(st, page, c, rnd) ==
    IF c > Len(CategoryNames) THEN st
    ELSE LET category_name == CategoryNames[c]
         IN  IF category_name \notin DOMAIN page
             THEN ScrapeCategories(st, page, c + 1, rnd)
             ELSE IF ~page[category_name].ul
             THEN [st EXCEPT !.raised = TRUE]
             ELSE ScrapeCategories(
                      ScrapeItems(st, category_name, page[category_name].li, 1, rnd),
                      page, c + 1, rnd)

\* scrape_menu: fetch is [ok, page]; ok is FALSE when requests.get raises.
\* The result is [md, cats, ret]: the scraper's two dicts after the call and the
\* dict object returned: "menu_data" for self.menu_data, "empty" for a new {}.
scrape_menu(md, cats, fetch, rnd) ==
    IF ~fetch.ok
    THEN [md |-> md, cats |-> cats, ret |-> "empty"]
    ELSE LET st == ScrapeCategories([md |-> md, cats |-> cats, n |-> 0, raised |-> FALSE],
                                    fetch.page, 1, rnd)
         IN  [md |-> st.md, cats |-> st.cats,
              ret |-> IF st.raised THEN "empty" ELSE "menu_data"]

\* the dict DriveThruAI.menu holds
Menu == IF menu = "menu_data" THEN menu_data ELSE <<>>

-----------------------------------------------------------------------------
(* The inputs tried *)

\* Python's None, for the optional special_instructions
NoText == "None"

s_BigMacAndFries == <<"B","i","g"," ","M","a","c"," ","a","n","d"," ","F","r","i","e","s">>
s_Fries  == <<"F","r","i","e","s">>
s_Coffee == <<"C","o","f","f","e","e">>
s_CafeCoffee == <<"C","A","F","É"," ">> \o s_Coffee

\* a page with two categories, written on several lines: one <li> has a line
\* break and blanks around its text, one is empty, one holds a line break, a
\* tab and a vertical tab only
PageMeals == [c \in {"Featured Favorites", "Fries & Sides"} |->
    IF c = "Featured Favorites"
    THEN [ul |-> TRUE, li |-> <<s_BigMacAndFries>>]
    ELSE [ul |-> TRUE, li |-> << <<"\n"," "," ">> \o s_Fries \o <<" ","\r","\n">>,
                                <<>>,
                                <<"\n","\t","">> >>]]

\* a page with one category
PageCoffee == [c \in {"McCafe Coffees"} |-> [ul |-> TRUE, li |-> <<s_CafeCoffee>>]]

\* a page whose second heading is followed by no <ul>
PageBroken == [c \in {"Fries & Sides", "Beverages"} |->
    IF c = "Fries & Sides"
    THEN [ul |-> TRUE, li |-> <<s_Fries>>]
    ELSE [ul |-> FALSE, li |-> <<>>]]

Pages == {PageMeals, PageCoffee, PageBroken}

\* what requests.get and the parse give: a failed request, or one of the pages
Fetches ==
    { [ok |-> FALSE, page |-> <<>>] } \cup { [ok |-> TRUE, page |-> p] : p \in Pages }

\* the names a scrape of these pages can store: item.text.strip() of every <li>,
\* unless it is empty
ItemNames ==
    UNION { UNION { { Strip(p[c].li[i]) : i \in 1..Len(p[c].li) } : c \in DOMAIN p } :
            p \in Pages } \ { <<>> }

\* what random.uniform(0, 2) gives during one scrape, in tenths of a cent
JitterStreams == { <<0, 1996>> }

\* the upper end of random.uniform(0, 2), in tenths of a cent
JitterTop == 2000

\* What random.uniform(0, 2) can give, in tenths of a cent: 2 * random() stays
\* below 2.
JitterMills == 0..(JitterTop - 1)

\* the categories _get_base_price is tried on: its ten keys, and one it lacks
PriceCategories == CategorySet \cup {"Desserts"}

\* the ids add_item_to_order is called with: every id the scraper has stored,
\* and one it never stores
ItemIdArgs == { menu_data[i].id : i \in 1..Len(menu_data) } \cup { <<"Bur", 0>> }

QuantityArgs == 0..MaxQty

SizeArgs == {NoSize, "medium"}

IndexArgs == (-MaxItems - 1)..MaxItems

\* what the customer calls an item, for add_to_order
m_fries  == <<"f","r","i","e","s">>
m_frie   == <<"f","r","i","e">>
m_BigMac == <<"B","i","g"," ","M","a","c">>
m_coffee == <<"c","o","f","f","e","e">>
m_CafeCoffee == <<"C","a","f","é"," ","C","O","F","F","E","E">>
m_BigMacAndFriesMeal == <<" ">> \o s_BigMacAndFries \o <<" ","M","e","a","l">>

MentionArgs == {m_fries, m_frie, m_BigMac, m_CafeCoffee, m_BigMacAndFriesMeal}

\* what the customer calls an item, for remove_from_order
t_FRIES == <<"F","R","I","E","S">>
t_mac   == <<"m","a","c">>
t_nuggets == <<"n","u","g","g","e","t","s">>

RemoveTextArgs == {t_FRIES, t_mac, t_nuggets}

\* the page, and one more text, of the sessions that remove by text alone
\* (RemoveSpec): a name with a capital outside ASCII, and a text that has the
\* letter small
s_FriesSalees == s_Fries \o <<" ","S","A","L","É","E","S">>

PageSalted == [c \in {"Featured Favorites", "Fries & Sides"} |->
    IF c = "Featured Favorites"
    THEN [ul |-> TRUE, li |-> <<s_BigMacAndFries>>]
    ELSE [ul |-> TRUE, li |-> <<s_FriesSalees>>]]

t_Salees == <<"S","a","l","é","e","s">>

SaltedTextArgs == RemoveTextArgs \cup {t_Salees}

RemoveQuantityArgs == 0..(MaxQty + 1)

\* The pages, and what the customer says, in the sessions that use the agent
\* tools alone (ToolSpec).
s_Chicken  == <<"C","h","i","c","k","e","n">>
s_Sandwich == <<"S","a","n","d","w","i","c","h">>
s_ChickenSandwichDeluxe ==
    s_Chicken \o <<" ">> \o s_Sandwich \o <<" ","D","e","l","u","x","e">>
s_Milk       == <<"M","i","l","k">>

\* two items that each share one word with "chicken sandwich"
PageTie == [c \in {"Chicken & Fish Sandwiches"} |->
    [ul |-> TRUE, li |-> <<s_Sandwich, s_Chicken>>]]

\* the same two, then one that shares both words, then one of another category
PageChicken == [c \in {"Chicken & Fish Sandwiches", "Fries & Sides"} |->
    IF c = "Chicken & Fish Sandwiches"
    THEN [ul |-> TRUE, li |-> <<s_Chicken, s_Sandwich, s_ChickenSandwichDeluxe>>]
    ELSE [ul |-> TRUE, li |-> <<s_Fries>>]]

\* an item without milk or coffee in its name, one with coffee, one with milk
PageDrinks == [c \in {"Fries & Sides", "McCafe Coffees", "Beverages"} |->
    IF c = "Fries & Sides" THEN [ul |-> TRUE, li |-> <<s_Fries>>]
    ELSE IF c = "McCafe Coffees" THEN [ul |-> TRUE, li |-> <<s_CafeCoffee>>]
    ELSE [ul |-> TRUE, li |-> <<s_Milk>>]]

ToolPages == {PageTie, PageChicken, PageDrinks}

ToolFetches == { [ok |-> TRUE, page |-> p] : p \in ToolPages }

ToolItemNames ==
    UNION { UNION { { Strip(p[c].li[i]) : i \in 1..Len(p[c].li) } : c \in DOMAIN p } :
            p \in ToolPages } \ { <<>> }

m_chickenSandwich == <<"c","h","i","c","k","e","n"," ","s","a","n","d","w","i","c","h">>
m_Chicken == <<" ">> \o s_Chicken
m_milk    == <<"m","i","l","k">>

\* the two words with a tab between them, and whitespace around them
m_chickenTabSandwich ==
    <<"\f","c","h","i","c","k","e","n","\t","s","a","n","d","w","i","c","h","","\n">>

ToolMentionArgs == {m_chickenSandwich, m_chickenTabSandwich, m_Chicken, m_milk,
                    m_coffee, m_frie, m_fries}

t_fries   == <<"f","r","i","e","s">>
t_chicken == <<"c","h","i","c","k","e","n">>

ToolRemoveTextArgs == {t_fries, t_chicken}

\* every text and every name the tables below are computed for
AllMentionArgs == MentionArgs \cup ToolMentionArgs

AllItemNames == ItemNames \cup ToolItemNames \cup {s_FriesSalees}

AllRemoveTextArgs == SaltedTextArgs \cup ToolRemoveTextArgs

-----------------------------------------------------------------------------
(* Order *)

\* Order.calculate_total: the sum, line by line from the i-th on
RECURSIVE SumFrom(_, _)
SumFrom(items, i) ==
    IF i > Len(items) THEN 0
    ELSE items[i].menu_item.price * items[i].quantity + SumFrom(items, i + 1)

calculate_total(order) == SumFrom(order.items, 1)

\* Order(id=...): the field defaults of the class
NewOrder(id) == [id |-> id, items |-> <<>>, status |-> "in_progress", total |-> 0]

\* OrderItem(menu_item=..., quantity=..., size=..., special_instructions=...)
NewOrderItem(menu_item, quantity, size, special_instructions) ==
    [menu_item |-> menu_item, quantity |-> quantity, size |-> size,
     special_instructions |-> special_instructions]

\* list.pop(i) for an index Python accepts (-len <= i < len): the position, from 1
PopIndex(items, i) == IF i < 0 THEN Len(items) + i + 1 ELSE i + 1

Pop(items, i) ==
    LET k == PopIndex(items, i)
    IN  SubSeq(items, 1, k - 1) \o SubSeq(items, k + 1, Len(items))

\* list.pop raises IndexError for an index outside -len..len-1, and changes nothing
PopRaises(items, i) == i < -Len(items) \/ i >= Len(items)

Range(f) == { f[i] : i \in DOMAIN f }

\* a returned bool, as last.ret records it
Bool(b) == IF b THEN "True" ELSE "False"

-----------------------------------------------------------------------------
(* DriveThruAI *)

\* OrderId without the + 1
OrderId_FromZero(history) == <<"order", Len(history)>>

\* f"order_{len(self.orders_history) + 1}"
OrderId(history) == <<"order", Len(history) + 1>>

\* The address of a new Order object.  An Order that neither current_order nor
\* orders_history refers to can no longer be reached, so its address is free.
NewAddress(hp, history) ==
    CHOOSE a \in 1..(Len(hp) + 1) :
        /\ a \notin Range(history)
        /\ \A b \in 1..(a - 1) : b \in Range(history)

Store(hp, a, order) ==
    IF a = Len(hp) + 1 THEN Append(hp, order) ELSE [hp EXCEPT ![a] = order]

\* __init__: a new scraper, one scrape_menu, no order, no history
Init ==
    \E fetch \in Fetches, rnd \in JitterStreams :
        LET r == scrape_menu(<<>>, [c \in CategorySet |-> <<>>], fetch, rnd)
        IN  /\ menu_data = r.md
            /\ categories = r.cats
            /\ menu = r.ret
            /\ heap = <<>>
            /\ current_order = None
            /\ orders_history = <<>>
            /\ issued = <<>>
            /\ last = [op |-> "__init__", arg |-> <<>>, ret |-> r.ret]

refresh_menu(fetch, rnd) ==
    LET r == scrape_menu(menu_data, categories, fetch, rnd)
    IN  /\ Len(r.md) <= MaxMenu
        /\ menu_data' = r.md
        /\ categories' = r.cats
        /\ menu' = r.ret
        /\ last' = [op |-> "refresh_menu", arg |-> <<>>, ret |-> r.ret]
        /\ UNCHANGED <<heap, current_order, orders_history, issued>>

\* Started handing back the order that is active, when there is one
Started_KeepsActive(hp, history, given) ==
    IF current_order # None
    THEN [heap |-> hp, current_order |-> current_order,
          issued |-> Append(given, hp[current_order].id)]
    ELSE [heap |-> Store(hp, NewAddress(hp, history), NewOrder(OrderId(history))),
          current_order |-> NewAddress(hp, history),
          issued |-> Append(given, OrderId(history))]

\* Started without the assignment to self.current_order
Started_Unset(hp, history, given) ==
    [heap |-> hp, current_order |-> None, issued |-> given]

\* The session after start_new_order: [heap, current_order, issued].
Started(hp, history, given) ==
    LET a == NewAddress(hp, history)
        order == NewOrder(OrderId(history))
    IN  [heap |-> Store(hp, a, order), current_order |-> a,
         issued |-> Append(given, order.id)]

start_new_order ==
    LET s == Started(heap, orders_history, issued)
    IN  /\ Len(issued) < MaxStarts
        /\ heap' = s.heap
        /\ current_order' = s.current_order
        /\ issued' = s.issued
        /\ last' = [op |-> "start_new_order", arg |-> <<>>, ret |-> "Order"]
        /\ UNCHANGED <<menu_data, categories, menu, orders_history>>

\* AddBranch without the size test of lines 160-161
AddBranch_NoSizeTest(cur, item_id, size) ==
    IF cur = None THEN "no_order"
    ELSE IF ~DictHas(Menu, item_id) THEN "not_in_menu"
    ELSE "added"

\* The early return add_item_to_order takes, or "added".
AddBranch(cur, item_id, size) ==
    IF cur = None THEN "no_order"
    ELSE IF ~DictHas(Menu, item_id) THEN "not_in_menu"
    ELSE IF /\ DictGet(Menu, item_id).available_sizes # NoSizes
            /\ size \notin Range(DictGet(Menu, item_id).available_sizes)
         THEN "bad_size"
    ELSE "added"

\* The heap after lines 163-170: the line appended, the total recomputed.
AddLine(hp, a, item_id, quantity, size, special_instructions) ==
    LET order_item == NewOrderItem(DictGet(Menu, item_id), quantity, size,
                                   special_instructions)
        appended == [hp[a] EXCEPT !.items = Append(@, order_item)]
    IN  [hp EXCEPT ![a] = [appended EXCEPT !.total = calculate_total(appended)]]

add_item_to_order(item_id, quantity, size, special_instructions) ==
    LET branch == AddBranch(current_order, item_id, size)
    IN  /\ last' = [op |-> "add_item_to_order", arg |-> <<branch>>,
                    ret |-> Bool(branch = "added")]
        /\ IF branch # "added"
           THEN UNCHANGED heap
           ELSE /\ Len(heap[current_order].items) < MaxItems
                /\ heap' = AddLine(heap, current_order, item_id, quantity, size,
                                   special_instructions)
        /\ UNCHANGED <<menu_data, categories, menu, current_order, orders_history, issued>>

\* The early return of remove_item_from_order.
RemoveRefused(item_index) ==
    \/ current_order = None
    \/ item_index >= Len(heap[current_order].items)

\* RemoveLine without line 178: the line goes, the total stays
RemoveLine_StaleTotal(hp, a, item_index) ==
    [hp EXCEPT ![a] = [hp[a] EXCEPT !.items = Pop(@, item_index)]]

\* The heap after lines 177-178.
RemoveLine(hp, a, item_index) ==
    LET popped == [hp[a] EXCEPT !.items = Pop(@, item_index)]
    IN  [hp EXCEPT ![a] = [popped EXCEPT !.total = calculate_total(popped)]]

remove_item_from_order(item_index) ==
    LET ret == IF RemoveRefused(item_index) THEN "False"
               ELSE IF PopRaises(heap[current_order].items, item_index)
                    THEN "IndexError"
               ELSE "True"
    IN  /\ last' = [op |-> "remove_item_from_order", arg |-> <<>>, ret |-> ret]
        /\ IF ret = "True"
           THEN heap' = RemoveLine(heap, current_order, item_index)
           ELSE UNCHANGED heap
        /\ UNCHANGED <<menu_data, categories, menu, current_order, orders_history, issued>>

\* CheckoutRefused without the test for an empty order
CheckoutRefused_EmptyAllowed == current_order = None

\* The early return of checkout.
CheckoutRefused ==
    \/ current_order = None
    \/ heap[current_order].items = <<>>

\* Completed without the assignment of line 185
Completed_StatusKept(order) == order

\* line 185
Completed(order) == [order EXCEPT !.status = "completed"]

\* ClearedSlot without the assignment of line 187
ClearedSlot_Kept(a) == a

\* self.current_order after line 187
ClearedSlot(a) == None

checkout ==
    /\ last' = [op |-> "checkout", arg |-> <<>>, ret |-> Bool(~CheckoutRefused)]
    /\ IF CheckoutRefused
       THEN UNCHANGED <<heap, current_order, orders_history>>
       ELSE /\ heap' = [heap EXCEPT ![current_order] = Completed(@)]
            /\ orders_history' = Append(orders_history, current_order)
            /\ current_order' = ClearedSlot(current_order)
    /\ UNCHANGED <<menu_data, categories, menu, issued>>

-----------------------------------------------------------------------------
(* The agent tools *)

\* Python's None, for item_id and best_match in add_to_order
NoId == <<>>

\* lines 252-255: the customer's text cleaned up
CleanInput(item_name) ==
    Replace(Replace(Replace(Strip(Lower(item_name)), S_and, S_amp), S_with, S_w),
            S_meal, <<>>)

\* lines 259-262: a menu item's name cleaned up
CleanMenuName(name) ==
    Replace(Replace(Replace(Lower(name), S_and, S_amp), S_with, S_w), S_meal, <<>>)

\* line 270
PartialMatch(input_name, menu_name) ==
    Contains(input_name, menu_name) \/ Contains(menu_name, input_name)

\* line 272
Score(input_name, menu_name) ==
    Cardinality(Tokens(input_name) \cap Tokens(menu_name))

\* The cleaned texts, the matches and the scores of lines 252-272 for the texts
\* tried, each computed once by the operators above.
CleanInputOf == [t \in AllMentionArgs |-> CleanInput(t)]

CleanMenuNameOf == [n \in AllItemNames |-> CleanMenuName(n)]

PartialMatchOf ==
    [t \in AllMentionArgs |-> [n \in AllItemNames |->
        PartialMatch(CleanInputOf[t], CleanMenuNameOf[n])]]

ScoreOf ==
    [t \in AllMentionArgs |-> [n \in AllItemNames |->
        Score(CleanInputOf[t], CleanMenuNameOf[n])]]

\* The loop of lines 257-275 over the menu m from its i-th entry on, for the
\* customer's text item_name; the result is [item_id, best_match] as the loop
\* leaves them.
RECURSIVE MatchLoop(_, _, _, _, _)
MatchLoop(m, item_name, i, best_match, best_score) ==
    IF i > Len(m) THEN [item_id |-> NoId, best_match |-> best_match]
    ELSE IF CleanInputOf[item_name] = CleanMenuNameOf[m[i].name]
         THEN [item_id |-> m[i].id, best_match |-> best_match]
    ELSE IF /\ PartialMatchOf[item_name][m[i].name]
            /\ ScoreOf[item_name][m[i].name] > best_score
         THEN MatchLoop(m, item_name, i + 1, m[i].id, ScoreOf[item_name][m[i].name])
    ELSE MatchLoop(m, item_name, i + 1, best_match, best_score)

\* PickMatch letting the best partial match win over an exact one
PickMatch_PartialFirst(found) ==
    IF found.best_match # NoId THEN found.best_match ELSE found.item_id

\* lines 278-279: item_id once the loop is over
PickMatch(found) ==
    IF found.item_id = NoId /\ found.best_match # NoId
    THEN found.best_match ELSE found.item_id

\* lines 246-279: the id add_to_order settles on for item_name, or NoId
FindItem(m, item_name) == PickMatch(MatchLoop(m, item_name, 1, NoId, 0))

\* lines 287 and 290 for the names a scrape can store, each computed once
HasMilk == [n \in AllItemNames |-> Contains(S_milk, Lower(n))]

HasCoffee == [n \in AllItemNames |-> Contains(S_coffee, Lower(n))]

\* Answer without the test of line 290 for "coffee"
Answer_NoCoffeeTest(m, item_id, size) ==
    IF item_id = NoId THEN "NotFound"
    ELSE IF HasMilk[DictGet(m, item_id).name] THEN "ClarifyMilk"
    ELSE IF DictGet(m, item_id).available_sizes # NoSizes /\ size = NoSize
         THEN "AskSize"
    ELSE "Add"

\* What add_to_order answers for the item found, lines 281-302, ahead of the
\* call of add_item_to_order.
Answer(m, item_id, size) ==
    IF item_id = NoId THEN "NotFound"
    ELSE IF HasMilk[DictGet(m, item_id).name] THEN "ClarifyMilk"
    ELSE IF HasCoffee[DictGet(m, item_id).name] THEN "ClarifyCoffee"
    ELSE IF DictGet(m, item_id).available_sizes # NoSizes /\ size = NoSize
         THEN "AskSize"
    ELSE "Add"

add_to_order(item_name, quantity, size, special_instructions) ==
    LET s == IF current_order = None
             THEN Started(heap, orders_history, issued)
             ELSE [heap |-> heap, current_order |-> current_order, issued |-> issued]
        item_id == FindItem(Menu, item_name)
        answer == Answer(Menu, item_id, size)
        branch == AddBranch(s.current_order, item_id, size)
    IN  /\ current_order = None => Len(issued) < MaxStarts
        /\ current_order' = s.current_order
        /\ issued' = s.issued
        /\ IF answer # "Add"
           THEN /\ heap' = s.heap
                /\ last' = [op |-> "add_to_order", arg |-> <<item_name, item_id>>,
                            ret |-> answer]
           ELSE IF branch # "added"
           THEN /\ heap' = s.heap
                /\ last' = [op |-> "add_to_order", arg |-> <<item_name, item_id>>,
                            ret |-> "CouldNotAdd"]
           ELSE /\ Len(s.heap[s.current_order].items) < MaxItems
                /\ heap' = AddLine(s.heap, s.current_order, item_id, quantity, size,
                                   special_instructions)
                /\ last' = [op |-> "add_to_order", arg |-> <<item_name, item_id>>,
                            ret |-> "Added"]
        /\ UNCHANGED <<menu_data, categories, menu, orders_history>>

\* line 313 for the texts tried, each computed once
NameHolds ==
    [t \in AllRemoveTextArgs |-> [n \in AllItemNames |-> Contains(Lower(t), Lower(n))]]

\* lines 311-314: the indices (from 0) of the lines whose item name holds the text
ItemsToRemove(items, item_name) ==
    { i \in 0..(Len(items) - 1) : NameHolds[item_name][items[i + 1].menu_item.name] }

\* PopMatches taking the matching indices smallest first
RECURSIVE PopMatches_LowestFirst(_, _, _)
PopMatches_LowestFirst(r, to_remove, quantity) ==
    IF to_remove = {} THEN r
    ELSE LET i == CHOOSE x \in to_remove : \A y \in to_remove : x <= y
         IN  IF r.removed_count < quantity
             THEN PopMatches_LowestFirst([items |-> Pop(r.items, i - r.removed_count),
                                          removed_count |-> r.removed_count + 1],
                                         to_remove \ {i}, quantity)
             ELSE r

\* lines 320-324: the matching indices taken largest first, each popped while
\* fewer than quantity lines are gone; r is [items, removed_count]
RECURSIVE PopMatches(_, _, _)
PopMatches(r, to_remove, quantity) ==
    IF to_remove = {} THEN r
    ELSE LET i == CHOOSE x \in to_remove : \A y \in to_remove : y <= x
         IN  IF r.removed_count < quantity
             THEN PopMatches([items |-> Pop(r.items, i),
                              removed_count |-> r.removed_count + 1],
                             to_remove \ {i}, quantity)
             ELSE PopMatches(r, to_remove \ {i}, quantity)

remove_from_order(item_name, quantity) ==
    IF current_order = None \/ heap[current_order].items = <<>>
    THEN /\ last' = [op |-> "remove_from_order", arg |-> <<0>>,
                     ret |-> "Empty"]
         /\ UNCHANGED <<menu_data, categories, menu, heap, current_order,
                        orders_history, issued>>
    ELSE LET items == heap[current_order].items
             to_remove == ItemsToRemove(items, item_name)
             r == PopMatches([items |-> items, removed_count |-> 0], to_remove,
                             quantity)
             popped == [heap[current_order] EXCEPT !.items = r.items]
         IN  /\ IF to_remove = {}
                THEN /\ UNCHANGED heap
                     /\ last' = [op |-> "remove_from_order",
                                 arg |-> <<0>>,
                                 ret |-> "NotInOrder"]
                ELSE /\ heap' = [heap EXCEPT ![current_order] =
                                    [popped EXCEPT !.total = calculate_total(popped)]]
                     /\ last' = [op |-> "remove_from_order",
                                 arg |-> <<r.removed_count>>,
                                 ret |-> "Removed"]
             /\ UNCHANGED <<menu_data, categories, menu, current_order,
                            orders_history, issued>>

-----------------------------------------------------------------------------
(* The session *)

Next ==
    \/ \E fetch \in Fetches, rnd \in JitterStreams : refresh_menu(fetch, rnd)
    \/ start_new_order
    \/ \E item_id \in ItemIdArgs, quantity \in QuantityArgs, size \in SizeArgs :
           add_item_to_order(item_id, quantity, size, NoText)
    \/ \E item_index \in IndexArgs : remove_item_from_order(item_index)
    \/ checkout
    \/ \E item_name \in MentionArgs, quantity \in QuantityArgs, size \in SizeArgs :
           add_to_order(item_name, quantity, size, NoText)
    \/ \E item_name \in RemoveTextArgs, quantity \in RemoveQuantityArgs :
           remove_from_order(item_name, quantity)

Spec == Init /\ [][Next]_vars

\* A session that uses the agent tools alone, on a menu scraped once from one of
\* the tool pages.
ToolInit ==
    \E fetch \in ToolFetches, rnd \in JitterStreams :
        LET r == scrape_menu(<<>>, [c \in CategorySet |-> <<>>], fetch, rnd)
        IN  /\ menu_data = r.md
            /\ categories = r.cats
            /\ menu = r.ret
            /\ heap = <<>>
            /\ current_order = None
            /\ orders_history = <<>>
            /\ issued = <<>>
            /\ last = [op |-> "__init__", arg |-> <<>>, ret |-> r.ret]

ToolNext ==
    \/ \E item_name \in ToolMentionArgs, quantity \in QuantityArgs, size \in SizeArgs :
           add_to_order(item_name, quantity, size, NoText)
    \/ \E item_name \in ToolRemoveTextArgs, quantity \in RemoveQuantityArgs :
           remove_from_order(item_name, quantity)

ToolSpec == ToolInit /\ [][ToolNext]_vars

\* The calls of add_item_to_order that add a line to the order at address a;
\* two quantities tell two lines of one item apart.
LineCalls(a) ==
    { c \in [item_id : { menu_data[i].id : i \in 1..Len(menu_data) },
             quantity : {1, 2},
             size : SizeArgs] :
        AddBranch(a, c.item_id, c.size) = "added" }

\* The heap after the calls of add_item_to_order in calls, from the i-th on.
RECURSIVE AddLines(_, _, _, _)
AddLines(hp, a, calls, i) ==
    IF i > Len(calls) THEN hp
    ELSE AddLines(AddLine(hp, a, calls[i].item_id, calls[i].quantity, calls[i].size,
                          NoText),
                  a, calls, i + 1)

\* A session in which, on the menu scraped from PageSalted, an order has been
\* started and up to MaxLines lines added to it; from there on lines are
\* removed by text.
RemoveInit ==
    \E rnd \in JitterStreams :
        LET r == scrape_menu(<<>>, [c \in CategorySet |-> <<>>],
                             [ok |-> TRUE, page |-> PageSalted], rnd)
            s == Started(<<>>, <<>>, <<>>)
        IN  /\ menu_data = r.md
            /\ categories = r.cats
            /\ menu = r.ret
            /\ current_order = s.current_order
            /\ orders_history = <<>>
            /\ issued = s.issued
            /\ \E n \in 0..MaxLines :
                   \E calls \in [1..n -> LineCalls(s.current_order)] :
                       /\ heap = AddLines(s.heap, s.current_order, calls, 1)
                       /\ last = IF n = 0
                                 THEN [op |-> "start_new_order", arg |-> <<>>,
                                       ret |-> "Order"]
                                 ELSE [op |-> "add_item_to_order", arg |-> <<"added">>,
                                       ret |-> "True"]

RemoveNext ==
    \E item_name \in SaltedTextArgs, quantity \in RemoveQuantityArgs :
        remove_from_order(item_name, quantity)

RemoveSpec == RemoveInit /\ [][RemoveNext]_vars

\* The pricing of lines 78-79 alone: a scraper just made, about to price an
\* item of some category with some value of random.uniform.
PriceInit ==
    \E category_name \in PriceCategories, jitter \in JitterMills :
        /\ menu_data = <<>>
        /\ categories = [c \in CategorySet |-> <<>>]
        /\ menu = "empty"
        /\ heap = <<>>
        /\ current_order = None
        /\ orders_history = <<>>
        /\ issued = <<>>
        /\ last = [op |-> "MenuScraper", arg |-> <<category_name, jitter>>,
                   ret |-> 0]

price_item(category_name, jitter) ==
    /\ last' = [op |-> "price", arg |-> <<category_name, jitter>>,
                ret |-> Price(category_name, jitter)]
    /\ UNCHANGED <<menu_data, categories, menu, heap, current_order, orders_history,
                   issued>>

PriceNext ==
    /\ last.op = "MenuScraper"
    /\ price_item(last.arg[1], last.arg[2])

PriceSpec == PriceInit /\ [][PriceNext]_vars

-----------------------------------------------------------------------------
(* Properties *)

\* the lines of the active order; none when no order is active
ActiveItems == IF current_order = None THEN <<>> ELSE heap[current_order].items

\* the sum over the lines of price times quantity, taken from the last line back
RECURSIVE LineSum(_)
LineSum(items) ==
    IF items = <<>> THEN 0
    ELSE LineSum(SubSeq(items, 1, Len(items) - 1))
         + items[Len(items)].menu_item.price * items[Len(items)].quantity

\* C1: in every state, so after every call of start_new_order,
\* add_item_to_order, remove_item_from_order, add_to_order and
\* remove_from_order, the active order's total is the sum over its lines of the
\* item price times the line quantity.
C1_TotalIsLineSum ==
    current_order # None =>
        heap[current_order].total = LineSum(heap[current_order].items)

\* C1 witness: a line has just been removed by index and a priced line is left.
C1_Witness ==
    /\ last.op = "remove_item_from_order"
    /\ last.ret = "True"
    /\ Len(ActiveItems) >= 1
    /\ heap[current_order].total > 0

\* an index outside the bounds of the active order's lines
OutOfBounds(item_index) ==
    \/ current_order = None
    \/ item_index < 0
    \/ item_index >= Len(heap[current_order].items)

\* C2: remove_item_from_order with an index outside the bounds of the lines
\* (below 0, or at least the number of lines), or with no active order, returns
\* False and leaves the lines and the total as they were.
C2_OutOfBoundsRefused ==
    [][last'.op = "remove_item_from_order" =>
          \A item_index \in IndexArgs :
              (OutOfBounds(item_index) /\ remove_item_from_order(item_index))
                  => (last'.ret = "False" /\ heap' = heap)]_vars

\* the three cases in which add_item_to_order is to fail
MustRefuseAdd(item_id, size) ==
    \/ current_order = None
    \/ \A i \in 1..Len(Menu) : Menu[i].id # item_id
    \/ \E i \in 1..Len(Menu) :
           /\ Menu[i].id = item_id
           /\ Menu[i].available_sizes # NoSizes
           /\ \A k \in 1..Len(Menu[i].available_sizes) :
                  Menu[i].available_sizes[k] # size

\* C3: add_item_to_order returns False and changes neither the orders, the
\* history nor the catalog when no order is active, when the id is not in the
\* menu, or when the item has sizes and the size given (None included) is not
\* one of them.
C3_AddRefusedChangesNothing ==
    [][last'.op = "add_item_to_order" =>
          \A item_id \in ItemIdArgs, quantity \in QuantityArgs, size \in SizeArgs :
              (MustRefuseAdd(item_id, size)
                 /\ add_item_to_order(item_id, quantity, size, NoText))
                  => /\ last'.ret = "False"
                     /\ UNCHANGED <<heap, current_order, orders_history,
                                    menu_data, categories, menu>>]_vars

\* C3 witness: an order is active and a sized item was asked for without a size.
C3_Witness ==
    /\ last.op = "add_item_to_order"
    /\ last.arg = <<"bad_size">>
    /\ last.ret = "False"
    /\ current_order # None

\* C4: checkout with no active order or with an active order of no lines
\* returns False and changes neither the order, the slot nor the history;
\* checkout of an active order with a line returns True, marks that order
\* completed with its id, lines and total as they were, appends it to the
\* history as the last element and empties the slot.
C4_Checkout ==
    [][(last'.op = "checkout" /\ checkout) =>
          IF current_order = None \/ ActiveItems = <<>>
          THEN /\ last'.ret = "False"
               /\ UNCHANGED <<heap, current_order, orders_history>>
          ELSE /\ last'.ret = "True"
               /\ heap'[current_order].status = "completed"
               /\ heap'[current_order].id = heap[current_order].id
               /\ heap'[current_order].items = heap[current_order].items
               /\ heap'[current_order].total = heap[current_order].total
               /\ Len(orders_history') = Len(orders_history) + 1
               /\ SubSeq(orders_history', 1, Len(orders_history)) = orders_history
               /\ orders_history'[Len(orders_history')] = current_order
               /\ current_order' = None]_vars

\* C4 witness: an order with a line has just been checked out.
C4_Witness ==
    /\ last.op = "checkout"
    /\ last.ret = "True"
    /\ current_order = None
    /\ Len(orders_history) >= 1
    /\ heap[orders_history[Len(orders_history)]].items # <<>>

\* C5: whatever is called, the history afterwards holds completed orders only,
\* keeps every order it held, in place and with its id, and grows only by a
\* successful checkout, which puts the order checked out last.
C5_HistoryAppendOnly ==
    [][/\ \A k \in 1..Len(orders_history') :
              heap'[orders_history'[k]].status = "completed"
       /\ Len(orders_history') >= Len(orders_history)
       /\ \A k \in 1..Len(orders_history) :
              /\ orders_history'[k] = orders_history[k]
              /\ heap'[orders_history'[k]].id = heap[orders_history[k]].id
       /\ Len(orders_history') > Len(orders_history) =>
              /\ last'.op = "checkout"
              /\ last'.ret = "True"
              /\ orders_history' = Append(orders_history, current_order)]_vars

\* C5 witness: two orders are in the history, and a call other than checkout has
\* been made since.
C5_Witness ==
    /\ Len(orders_history) = 2
    /\ last.op # "checkout"

\* C6: no two orders made by start_new_order in one session have the same id.
C6_OrderIdsUnique ==
    \A i, j \in 1..Len(issued) : i # j => issued[i] # issued[j]

\* C7: an order in the history keeps its lines, its total and its status
\* through every later call.
C7_CompletedImmutable ==
    [][\A k \in 1..Len(orders_history) :
          /\ heap[orders_history[k]].status = "completed"
          /\ heap'[orders_history[k]].status = "completed"
          /\ heap'[orders_history[k]].items = heap[orders_history[k]].items
          /\ heap'[orders_history[k]].total = heap[orders_history[k]].total]_vars

\* C7 witness: with an order in the history, a line has been added to a later
\* order.
C7_Witness ==
    /\ Len(orders_history) >= 1
    /\ last.op \in {"add_item_to_order", "add_to_order"}
    /\ last.ret \in {"True", "Added"}
    /\ Len(ActiveItems) >= 1

\* C8: every line of the active order and of every order in the history has a
\* quantity of at least 1.
C8_QuantityAtLeastOne ==
    \A a \in ({current_order} \ {None}) \cup Range(orders_history) :
        \A k \in 1..Len(heap[a].items) : heap[a].items[k].quantity >= 1

\* the sum over the lines of the price the dict d has for the line's item id
\* times the line quantity
RECURSIVE LookupSum(_, _)
LookupSum(d, items) ==
    IF items = <<>> THEN 0
    ELSE LookupSum(d, SubSeq(items, 1, Len(items) - 1))
         + DictGet(d, items[Len(items)].menu_item.id).price * items[Len(items)].quantity

\* C9 as claimed: every line of the active order names an item of the current
\* menu, and the total is the sum of the menu's price for it times the quantity.
C9_LinesInCurrentMenu ==
    /\ \A k \in 1..Len(ActiveItems) : DictHas(Menu, ActiveItems[k].menu_item.id)
    /\ current_order # None =>
           heap[current_order].total = LookupSum(Menu, ActiveItems)

\* C9 as amended: every line of the active order carries an item just as the
\* scraper's menu_data holds it under that id; the item is in the current menu
\* unless the latest scrape failed, which leaves the menu empty; and the total
\* is the sum of menu_data's price for it times the quantity.
C9_LinesInMenuData ==
    /\ \A k \in 1..Len(ActiveItems) :
           /\ DictHas(menu_data, ActiveItems[k].menu_item.id)
           /\ DictGet(menu_data, ActiveItems[k].menu_item.id) = ActiveItems[k].menu_item
           /\ menu = "menu_data" => DictHas(Menu, ActiveItems[k].menu_item.id)
    /\ menu = "empty" => Menu = <<>>
    /\ current_order # None =>
           heap[current_order].total = LookupSum(menu_data, ActiveItems)

\* C9 witness: a refresh has just failed while the active order has a line.
C9_Witness ==
    /\ last.op = "refresh_menu"
    /\ last.ret = "empty"
    /\ Len(ActiveItems) >= 1

\* the positions in the menu of the items whose cleaned name is the cleaned text
ExactMatches(item_name) ==
    { i \in 1..Len(Menu) : CleanMenuNameOf[Menu[i].name] = CleanInputOf[item_name] }

\* C10: when the cleaned text of add_to_order equals the cleaned name of an item
\* of the menu, the item found is one whose cleaned name equals the cleaned
\* text, whatever partial matches come before it in the menu.
C10_ExactMatchWins ==
    (last.op = "add_to_order" /\ ExactMatches(last.arg[1]) # {}) =>
        \E i \in ExactMatches(last.arg[1]) : Menu[i].id = last.arg[2]

\* C10 witness: the text matched an item exactly, and an item before it in the
\* menu matches the text in part with a score of at least 1.
C10_Witness ==
    /\ last.op = "add_to_order"
    /\ \E i \in ExactMatches(last.arg[1]) :
           /\ Menu[i].id = last.arg[2]
           /\ \E j \in 1..(i - 1) :
                  /\ PartialMatchOf[last.arg[1]][Menu[j].name]
                  /\ ScoreOf[last.arg[1]][Menu[j].name] >= 1

\* the positions in the menu of the items whose cleaned name holds the cleaned
\* text or is held by it
PartialCandidates(item_name) ==
    { i \in 1..Len(Menu) : PartialMatchOf[item_name][Menu[i].name] }

\* the first of the partial candidates that no other partial candidate outscores
FirstTopScorer(item_name) ==
    CHOOSE i \in PartialCandidates(item_name) :
        /\ \A j \in PartialCandidates(item_name) :
               ScoreOf[item_name][Menu[j].name] <= ScoreOf[item_name][Menu[i].name]
        /\ \A j \in PartialCandidates(item_name) :
               j < i => ScoreOf[item_name][Menu[j].name] < ScoreOf[item_name][Menu[i].name]

\* C11: when the cleaned text of add_to_order equals no cleaned name of the menu
\* and some item matches it in part, the item found is the partial candidate
\* with the largest number of shared words, and of several with that number the
\* one that comes first in the menu.
C11_FirstTopScorerWins ==
    (/\ last.op = "add_to_order"
     /\ ExactMatches(last.arg[1]) = {}
     /\ PartialCandidates(last.arg[1]) # {})
        => last.arg[2] = Menu[FirstTopScorer(last.arg[1])].id

\* The part of C11 the code keeps: the same, for a text that shares at least one
\* word with its best partial candidate.
FirstTopScorerWinsFromOne ==
    (/\ last.op = "add_to_order"
     /\ ExactMatches(last.arg[1]) = {}
     /\ PartialCandidates(last.arg[1]) # {}
     /\ ScoreOf[last.arg[1]][Menu[FirstTopScorer(last.arg[1])].name] >= 1)
        => last.arg[2] = Menu[FirstTopScorer(last.arg[1])].id

\* a tie of two partial candidates at the top score was settled
TieSettled ==
    /\ last.op = "add_to_order"
    /\ ExactMatches(last.arg[1]) = {}
    /\ \E i, j \in PartialCandidates(last.arg[1]) :
           /\ i < j
           /\ i = FirstTopScorer(last.arg[1])
           /\ ScoreOf[last.arg[1]][Menu[j].name] = ScoreOf[last.arg[1]][Menu[i].name]
           /\ ScoreOf[last.arg[1]][Menu[i].name] >= 1
           /\ last.arg[2] = Menu[i].id

\* C12: add_to_order answers that the item is not on the menu if and only if
\* the cleaned text equals no cleaned name of the menu and no item matches it in
\* part; with a partial candidate in the menu the answer is never NotFound.
C12_NotFoundIffNoCandidate ==
    last.op = "add_to_order" =>
        (last.ret = "NotFound" <=>
            (ExactMatches(last.arg[1]) = {} /\ PartialCandidates(last.arg[1]) = {}))

\* the total of the active order; 0 when no order is active
ActiveTotal == IF current_order = None THEN 0 ELSE heap[current_order].total

\* whether the name, in small letters, holds the word somewhere
NameHasWord(name, word) ==
    LET small == Lower(name)
    IN  \E i \in 1..Len(small) :
            /\ i + Len(word) - 1 <= Len(small)
            /\ \A k \in 1..Len(word) : small[i + k - 1] = word[k]

\* C13: whenever the item add_to_order finds for the text has a name that holds
\* "milk" or "coffee", the call answers with the question which kind is meant
\* and adds no line: the active order's lines and total are after the call what
\* they were before it, whatever the quantity and the size given.
C13_MilkCoffeeAsksAndAddsNothing ==
    [][(/\ last'.op = "add_to_order"
        /\ last'.arg[2] # NoId
        /\ \/ NameHasWord(DictGet(Menu, last'.arg[2]).name, S_milk)
           \/ NameHasWord(DictGet(Menu, last'.arg[2]).name, S_coffee))
          => /\ last'.ret \in {"ClarifyMilk", "ClarifyCoffee"}
             /\ ActiveItems' = ActiveItems
             /\ ActiveTotal' = ActiveTotal]_vars

\* C13 witness: the question about coffee has been the answer while the active
\* order has a line.
C13_Witness ==
    /\ last.op = "add_to_order"
    /\ last.ret = "ClarifyCoffee"
    /\ Len(ActiveItems) >= 1
    /\ ActiveTotal > 0

\* the positions (from 1) of the lines whose item name holds the text, whatever
\* the case of the letters
MatchingLines(items, item_name) ==
    { i \in 1..Len(items) : NameHasWord(items[i].menu_item.name, Lower(item_name)) }

\* the n last of a set of positions
LastOf(positions, n) ==
    { i \in positions : Cardinality({ j \in positions : j > i }) < n }

\* the lines left once those at the positions in gone are taken out
LinesLeft(items, gone) ==
    LET stay == (1..Len(items)) \ gone
    IN  [k \in 1..Cardinality(stay) |->
            items[CHOOSE i \in stay : Cardinality({ j \in stay : j < i }) = k - 1]]

Min(a, b) == IF a <= b THEN a ELSE b

\* C14: remove_from_order with a quantity of at least 1 removes exactly
\* min(quantity, m) lines, m being the number of lines of the active order whose
\* item name holds the text in any case of letters; the lines removed are the
\* matching lines at the highest positions, the other lines stay in the order
\* they had, and the total is the sum over the lines that are left.
C14_RemovesLastMatches ==
    [][last'.op = "remove_from_order" =>
          \A item_name \in SaltedTextArgs, quantity \in RemoveQuantityArgs :
              (quantity >= 1 /\ remove_from_order(item_name, quantity)) =>
                  LET matching == MatchingLines(ActiveItems, item_name)
                      n == Min(quantity, Cardinality(matching))
                      left == LinesLeft(ActiveItems, LastOf(matching, n))
                  IN  /\ Len(ActiveItems') = Len(ActiveItems) - n
                      /\ ActiveItems' = left
                      /\ ActiveTotal' = LineSum(left)]_vars

\* C14 witness: of three lines one has been removed by text, and the two that
\* are left differ.
C14_Witness ==
    /\ last.op = "remove_from_order"
    /\ last.ret = "Removed"
    /\ last.arg = <<1>>
    /\ Len(ActiveItems) = 2
    /\ ActiveItems[1] # ActiveItems[2]

\* the items a refresh has stored: what menu_data holds beyond what it held
NewlyBuilt == SubSeq(menu_data', Len(menu_data) + 1, Len(menu_data'))

\* what the dict that DriveThruAI.menu held before a step holds after the step:
\* the scraper's menu_data is one object throughout, a {} returned on failure
\* is held by nothing else
EarlierMenuAfterwards == IF menu = "menu_data" THEN menu_data' ELSE <<>>

\* C15: a refresh leaves the catalog of an earlier build as it was: the dict the
\* earlier build returned and the category lists hold after the refresh exactly
\* the items they held before it, and the menu after the refresh holds the items
\* of the new build only.
C15_RefreshLeavesEarlierCatalog ==
    [][last'.op = "refresh_menu" =>
          /\ EarlierMenuAfterwards = Menu
          /\ categories' = categories
          /\ Menu' = IF menu' = "menu_data" THEN NewlyBuilt ELSE <<>>]_vars

\* the items show_menu lists: those of the category lists
ListedItems == UNION { Range(categories[c]) : c \in CategorySet }

\* C16: after a refresh, whether it succeeded or failed, the items listed by
\* category are exactly the items of the menu; after a failed refresh there are
\* none of either.
C16_ReadersSeeWholeCatalog ==
    last.op = "refresh_menu" =>
        /\ ListedItems = Range(Menu)
        /\ last.ret = "empty" => (ListedItems = {} /\ Menu = <<>>)

\* C17 as claimed: the price stored for an item of a category with base price B
\* (499 for a category the table lacks) is at least B and below B + 2.00.
C17_PriceBelowBasePlusTwo ==
    last.op = "price" =>
        /\ BasePrice(last.arg[1]) <= last.ret
        /\ last.ret < BasePrice(last.arg[1]) + 200

\* C17 as amended: the price stored is at least B and at most B + 2.00; the
\* rounding to the cent takes a jitter of 1.995 or more up to B + 2.00.
C17_PriceAtMostBasePlusTwo ==
    last.op = "price" =>
        /\ BasePrice(last.arg[1]) <= last.ret
        /\ last.ret <= BasePrice(last.arg[1]) + 200
        /\ last.ret = BasePrice(last.arg[1]) + 200 => last.arg[2] >= JitterTop - 5

\* C17 witness: an item of a category the table lacks has been priced at
\* 4.99 + 2.00.
C17_Witness ==
    /\ last.op = "price"
    /\ last.arg[1] \notin CategorySet
    /\ last.ret = 499 + 200

\* C18: start_new_order makes an order without lines, with total 0 and status
\* in_progress, and makes it the active order; the order that was active before,
\* with or without lines, is not put into the history: the history and the
\* orders in it are what they were.
C18_StartReplacesActive ==
    [][last'.op = "start_new_order" =>
          /\ current_order' # None
          /\ heap'[current_order'].items = <<>>
          /\ heap'[current_order'].total = 0
          /\ heap'[current_order'].status = "in_progress"
          /\ current_order' \notin Range(orders_history')
          /\ orders_history' = orders_history
          /\ \A k \in 1..Len(orders_history) :
                 heap'[orders_history[k]] = heap[orders_history[k]]]_vars

\* C18 witness: start_new_order has been called a second time with no checkout
\* in between, so that the order of the first call was active and is gone.
C18_Witness ==
    /\ last.op = "start_new_order"
    /\ Len(issued) = 2
    /\ orders_history = <<>>
    /\ ActiveItems = <<>>

\* C19: add_to_order leaves an active order with status in_progress, whatever
\* it answers; when no order was active, one has been started, and it has no
\* line if the answer is that the item was not found, a question about milk or
\* coffee, or the question for a size; when an order was active, no order has
\* been started: it is still the active one, with the lines it had.
C19_AddToOrderEnsuresActive ==
    [][last'.op = "add_to_order" =>
          /\ current_order' # None
          /\ heap'[current_order'].status = "in_progress"
          /\ current_order' \notin Range(orders_history')
          /\ current_order = None =>
                 /\ issued' = Append(issued, heap'[current_order'].id)
                 /\ last'.ret \in {"NotFound", "ClarifyMilk", "ClarifyCoffee", "AskSize"}
                        => heap'[current_order'].items = <<>>
          /\ current_order # None =>
                 /\ issued' = issued
                 /\ current_order' = current_order
                 /\ heap'[current_order'].id = heap[current_order].id
                 /\ Len(heap'[current_order'].items) >= Len(heap[current_order].items)
                 /\ SubSeq(heap'[current_order'].items, 1, Len(heap[current_order].items))
                        = heap[current_order].items]_vars

\* C19 witness: after a checkout, add_to_order has found nothing for the text,
\* and an order without lines is active.
C19_Witness ==
    /\ last.op = "add_to_order"
    /\ last.ret = "NotFound"
    /\ Len(orders_history) = 1
    /\ current_order # None
    /\ heap[current_order].items = <<>>
    /\ heap[current_order].status = "in_progress"

\* C20: the orders in the history have ids that differ from one another, the
\* k-th of them has the id order_k, and the active order, when there is one,
\* has the id order_(length of the history + 1) and is not in the history.
C20_HistoryIdsInOrder ==
    /\ \A k \in 1..Len(orders_history) : heap[orders_history[k]].id = <<"order", k>>
    /\ \A j, k \in 1..Len(orders_history) :
           j # k => /\ orders_history[j] # orders_history[k]
                    /\ heap[orders_history[j]].id # heap[orders_history[k]].id
    /\ current_order # None =>
           /\ heap[current_order].id = <<"order", Len(orders_history) + 1>>
           /\ current_order \notin Range(orders_history)

\* C20 witness: with one order in the history, a later order is active and has
\* a line.
C20_Witness ==
    /\ Len(orders_history) = 1
    /\ current_order # None
    /\ Len(ActiveItems) >= 1

====
